---------------------------- MODULE Spec2Model ----------------------------
(***************************************************************************)
(* A model of the offline fallback layer (offline_utils.py) and of the     *)
(* video provider selection of text_to_speech (main.py).                   *)
(*                                                                         *)
(* A text is a sequence of Unicode code points.  The character classes     *)
(* below are those of Python 3 (str.isspace, re's \s and \w, str.upper),   *)
(* restricted to the blocks the model's texts use: Basic Latin, Latin-1    *)
(* Supplement, Arabic, Devanagari and Bengali.                             *)
(***************************************************************************)
EXTENDS Integers, Sequences, FiniteSets, TLC

(***************************************************************************)
(* Character classes                                                       *)
(***************************************************************************)

\* Python's None, as the result of a call that produced nothing: a value that
\* is no text (no sequence of code points).
None == <<-1>>

\* str.isspace / \s: TAB LF VT FF CR, FS GS RS US, SPACE, NEL, NBSP.
WhitespaceChars == (9..13) \cup (28..32) \cup {133, 160}

IsSpace(c) == c \in WhitespaceChars

\* [.,!?;:] of the punctuation-spacing patterns.
PunctChars == {46, 44, 33, 63, 59, 58}

IsPunct(c) == c \in PunctChars

\* [.!?।॥] of the sentence-boundary lookbehind.
TerminatorChars == {46, 33, 63, 2404, 2405}

IsTerminator(c) == c \in TerminatorChars

\* A variant of IsDevanagari that stops at U+095F, before the block's dandas,
\* digits and extensions.
IsDevanagariLetters(c) == 2304 <= c /\ c <= 2399

\* 'ऀ' <= c <= 'ॿ'
IsDevanagari(c) == 2304 <= c /\ c <= 2431

\* 'ঀ' <= c <= '৿'
IsBengali(c) == 2432 <= c /\ c <= 2559

\* '؀' <= c <= 'ۿ'
IsArabic(c) == 1536 <= c /\ c <= 1791

\* A variant of IsAscii that takes only the lower-case letters for ASCII.
IsAsciiLowercase(c) == 97 <= c /\ c <= 122

\* str.isascii of one character
IsAscii(c) == c <= 127

IsAsciiLetter(c) == (65 <= c /\ c <= 90) \/ (97 <= c /\ c <= 122)

IsAsciiDigit(c) == 48 <= c /\ c <= 57

\* \w of a str pattern (alphanumeric or underscore), on the modelled blocks.
WordChars ==
    (48..57) \cup (65..90) \cup {95} \cup (97..122)
    \cup {170, 178, 179, 181, 185, 186} \cup (188..190)
    \cup (192..214) \cup (216..246) \cup (248..255)
    \cup (1568..1610) \cup (1632..1641) \cup (1646..1647) \cup (1649..1747)
    \cup {1749, 1765, 1766} \cup (1774..1788) \cup {1791}
    \cup (2308..2361) \cup {2365, 2384} \cup (2392..2401) \cup (2406..2415)
    \cup (2417..2432) \cup (2437..2444) \cup (2447..2448) \cup (2451..2472)
    \cup (2474..2480) \cup {2482} \cup (2486..2489) \cup {2493, 2510}
    \cup (2524..2525) \cup (2527..2529) \cup (2534..2545) \cup (2548..2553)
    \cup {2556}

IsWord(c) == c \in WordChars

\* The URL pattern's repeated group: [a-zA-Z] | [0-9] | [$-_@.&+] | [!*\\(\\),]
\* | %XX.  The range $-_ is 36..95; every alternative consumes characters of
\* this one class, so the greedy repetition is the maximal run of the class.
IsUrlChar(c) == c = 33 \/ (36 <= c /\ c <= 95) \/ (97 <= c /\ c <= 122)

\* [A-Za-z0-9._%+-]
IsEmailLocalChar(c) ==
    IsAsciiLetter(c) \/ IsAsciiDigit(c) \/ c \in {46, 95, 37, 43, 45}

\* [A-Za-z0-9.-]
IsEmailDomainChar(c) == IsAsciiLetter(c) \/ IsAsciiDigit(c) \/ c \in {46, 45}

\* [A-Z|a-z]
IsEmailTldChar(c) == IsAsciiLetter(c) \/ c = 124

\* str.upper of one character (a string: the sharp s becomes "SS").
UpperChar(c) ==
    IF 97 <= c /\ c <= 122 THEN <<c - 32>>
    ELSE IF (224 <= c /\ c <= 246) \/ (248 <= c /\ c <= 254) THEN <<c - 32>>
    ELSE IF c = 223 THEN <<83, 83>>
    ELSE IF c = 181 THEN <<924>>
    ELSE IF c = 255 THEN <<376>>
    ELSE <<c>>

(***************************************************************************)
(* String helpers                                                          *)
(***************************************************************************)

\* F applied to the value of v, which is computed once (an evaluation device:
\* the value of the expression is that of F(v)).
Bind(v, F(_)) == CHOOSE r \in {F(x) : x \in {v}} : TRUE

\* text[i:j] with 1-based inclusive bounds; empty when i > j.
Slice(t, i, j) == IF i > j THEN <<>> ELSE SubSeq(t, i, j)

RECURSIVE SpaceRunEnd(_, _)
\* The index after the maximal whitespace run that starts at i.
SpaceRunEnd(t, i) ==
    IF i <= Len(t) /\ IsSpace(t[i]) THEN SpaceRunEnd(t, i + 1) ELSE i

RECURSIVE SpaceRunStart(_, _)
\* The index before the maximal whitespace run that ends at i.
SpaceRunStart(t, i) ==
    IF i >= 1 /\ IsSpace(t[i]) THEN SpaceRunStart(t, i - 1) ELSE i

\* A variant of Strip that leaves the ends as they are.
StripOmitted(text) == text

\* str.strip()
Strip(text) ==
    Bind(text, LAMBDA t : Slice(t, SpaceRunEnd(t, 1), SpaceRunStart(t, Len(t))))

RECURSIVE FlattenRange(_, _, _)
\* The concatenation of parts[lo..hi], by halves.
FlattenRange(parts, lo, hi) ==
    IF lo > hi THEN <<>>
    ELSE IF lo = hi THEN parts[lo]
    ELSE LET mid == (lo + hi) \div 2
         IN  FlattenRange(parts, lo, mid) \o FlattenRange(parts, mid + 1, hi)

\* ''.join(parts)
Flatten(parts) == Bind(parts, LAMBDA p : FlattenRange(p, 1, Len(p)))

Min(S) == CHOOSE x \in S : \A y \in S : x <= y

Max(S) == CHOOSE x \in S : \A y \in S : y <= x

\* re.sub(r'\s+', ' ', text): the first character of a whitespace run becomes
\* one space, the rest of the run goes.
CollapseWhitespace(text) ==
    Bind(text, LAMBDA t :
        Flatten([i \in 1..Len(t) |->
            IF ~IsSpace(t[i]) THEN <<t[i]>>
            ELSE IF i > 1 /\ IsSpace(t[i - 1]) THEN <<>>
            ELSE <<32>>]))

\* A variant of RemoveSpaceBeforePunct that removes nothing.
RemoveSpaceBeforePunctOmitted(text) == text

\* re.sub(r'\s+([.,!?;:])', r'\1', text): a whitespace run goes when the
\* character after it is one of the marks.
RemoveSpaceBeforePunct(text) ==
    Bind(text, LAMBDA t :
        Flatten([i \in 1..Len(t) |->
            IF IsSpace(t[i])
               /\ SpaceRunEnd(t, i) <= Len(t)
               /\ IsPunct(t[SpaceRunEnd(t, i)])
            THEN <<>>
            ELSE <<t[i]>>]))

\* A variant of OneSpaceAfterPunct that adds nothing.
OneSpaceAfterPunctOmitted(text) == text

\* re.sub(r'([.,!?;:])\s*', r'\1 ', text): a mark takes the whitespace run
\* after it and is followed by one space.
OneSpaceAfterPunct(text) ==
    Bind(text, LAMBDA t :
        Flatten([i \in 1..Len(t) |->
            IF IsPunct(t[i]) THEN <<t[i], 32>>
            ELSE IF IsSpace(t[i]) /\ SpaceRunStart(t, i) >= 1
                    /\ IsPunct(t[SpaceRunStart(t, i)])
                 THEN <<>>
            ELSE <<t[i]>>]))

(***************************************************************************)
(* URL and e-mail placeholders                                             *)
(***************************************************************************)

UrlToken == <<32, 85, 82, 76, 32>>              \* ' URL '

EmailToken == <<32, 69, 77, 65, 73, 76, 32>>    \* ' EMAIL '

HttpPrefix == <<104, 116, 116, 112>>            \* 'http'

SchemeSep == <<58, 47, 47>>                     \* '://'

StartsWith(t, i, p) ==
    i + Len(p) - 1 <= Len(t) /\ Slice(t, i, i + Len(p) - 1) = p

RECURSIVE UrlRunEnd(_, _)
UrlRunEnd(t, i) ==
    IF i <= Len(t) /\ IsUrlChar(t[i]) THEN UrlRunEnd(t, i + 1) ELSE i

\* The index after the URL match that starts at i, or 0 when none starts there.
UrlMatchEnd(t, i) ==
    IF ~StartsWith(t, i, HttpPrefix) THEN 0
    ELSE Bind(IF i + 4 <= Len(t) /\ t[i + 4] = 115 THEN i + 5 ELSE i + 4,
              LAMBDA j :
                  IF StartsWith(t, j, SchemeSep) /\ UrlRunEnd(t, j + 3) > j + 3
                  THEN UrlRunEnd(t, j + 3)
                  ELSE 0)

RECURSIVE MaskUrlsFrom(_, _)
\* Leftmost non-overlapping matches, from index i on.
MaskUrlsFrom(t, i) ==
    Bind({j \in i..Len(t) : UrlMatchEnd(t, j) > 0}, LAMBDA starts :
        IF starts = {} THEN Slice(t, i, Len(t))
        ELSE Bind(Min(starts), LAMBDA j :
                 Bind(UrlMatchEnd(t, j), LAMBDA e :
                     Slice(t, i, j - 1) \o UrlToken \o MaskUrlsFrom(t, e))))

\* re.sub(r'http[s]?://(?:...)+', ' URL ', text)
MaskUrls(text) == Bind(text, LAMBDA t : MaskUrlsFrom(t, 1))

\* \b at the gap before index i (between t[i-1] and t[i]).
WordBoundary(t, i) ==
    LET before == i - 1 >= 1 /\ i - 1 <= Len(t) /\ IsWord(t[i - 1])
        after  == i >= 1 /\ i <= Len(t) /\ IsWord(t[i])
    IN  before # after

RECURSIVE LocalRunEnd(_, _)
LocalRunEnd(t, i) ==
    IF i <= Len(t) /\ IsEmailLocalChar(t[i]) THEN LocalRunEnd(t, i + 1) ELSE i

RECURSIVE DomainRunEnd(_, _)
DomainRunEnd(t, i) ==
    IF i <= Len(t) /\ IsEmailDomainChar(t[i]) THEN DomainRunEnd(t, i + 1) ELSE i

RECURSIVE TldRunEnd(_, _)
TldRunEnd(t, i) ==
    IF i <= Len(t) /\ IsEmailTldChar(t[i]) THEN TldRunEnd(t, i + 1) ELSE i

\* The ends p (index after the match) of the top-level domain that follows the
\* dot at index d: two or more characters of [A-Z|a-z], then \b.
TldEnds(t, d) == {p \in (d + 3)..TldRunEnd(t, d + 1) : WordBoundary(t, p)}

\* The index after the e-mail match that starts at i, or 0 when none starts
\* there.  The matcher backtracks greedily: the local part is the maximal run
\* (it must be followed by '@'), the domain is tried from its longest extent
\* down, and for each domain the top-level domain from its longest extent down.
EmailMatchEnd(t, i) ==
    Bind(LocalRunEnd(t, i), LAMBDA a :
        IF ~(WordBoundary(t, i) /\ a > i /\ a <= Len(t) /\ t[a] = 64) THEN 0
        ELSE Bind({d \in (a + 2)..(DomainRunEnd(t, a + 1) - 1) :
                      t[d] = 46 /\ TldEnds(t, d) # {}},
                  LAMBDA dots :
                      IF dots = {} THEN 0 ELSE Max(TldEnds(t, Max(dots)))))

RECURSIVE MaskEmailsFrom(_, _)
\* Leftmost non-overlapping matches, from index i on.  A match holds an '@',
\* so only the starts of a text that has one are tried.
MaskEmailsFrom(t, i) ==
    Bind(IF \A j \in i..Len(t) : t[j] # 64 THEN {}
         ELSE {j \in i..Len(t) : EmailMatchEnd(t, j) > 0},
         LAMBDA starts :
        IF starts = {} THEN Slice(t, i, Len(t))
        ELSE Bind(Min(starts), LAMBDA j :
                 Bind(EmailMatchEnd(t, j), LAMBDA e :
                     Slice(t, i, j - 1) \o EmailToken
                     \o MaskEmailsFrom(t, e))))

\* re.sub(r'\b[A-Za-z0-9._%+-]+@[A-Za-z0-9.-]+\.[A-Z|a-z]{2,}\b', ' EMAIL ', text)
MaskEmails(text) == Bind(text, LAMBDA t : MaskEmailsFrom(t, 1))

(***************************************************************************)
(* Text normalizer                                                         *)
(***************************************************************************)

preprocess_text_for_translation(text) ==
    OneSpaceAfterPunct(
        RemoveSpaceBeforePunct(
            Strip(CollapseWhitespace(MaskEmails(MaskUrls(text))))))

\* A variant of CapitalizeFirst that upper-cases the whole text.
CapitalizeAll(text) ==
    Bind(text, LAMBDA t : Flatten([i \in 1..Len(t) |-> UpperChar(t[i])]))

\* text[0].upper() + text[1:] if len(text) > 1 else text.upper()
CapitalizeFirst(text) ==
    Bind(text, LAMBDA t : UpperChar(t[1]) \o Slice(t, 2, Len(t)))

postprocess_translation(text, target_lang) ==
    Bind(Strip(CollapseWhitespace(
             OneSpaceAfterPunct(RemoveSpaceBeforePunct(text)))),
         LAMBDA fixed :
             IF target_lang = "en" /\ fixed # <<>> THEN CapitalizeFirst(fixed)
             ELSE fixed)

(***************************************************************************)
(* Language detector                                                       *)
(***************************************************************************)

\* k / n > 0.3 and k / n > 0.85 on floats: the quotient of two small integers
\* is correctly rounded, so it exceeds the literal exactly when the rational
\* does.
ExceedsFraction(k, n, num, den) == k * den > num * n

\* A variant of FirstInstalled that takes the first code of the list, installed
\* or not.
FirstListed(codes, installed_codes) == codes[1]

\* A variant of FirstInstalled that takes the last installed code of the list.
FirstInstalledFromEnd(codes, installed_codes) ==
    Bind({i \in 1..Len(codes) : codes[i] \in installed_codes}, LAMBDA pick :
        IF pick = {} THEN "en" ELSE codes[Max(pick)])

\* next((code for code in codes if code in installed_codes), "en")
FirstInstalled(codes, installed_codes) ==
    Bind({i \in 1..Len(codes) : codes[i] \in installed_codes}, LAMBDA pick :
        IF pick = {} THEN "en" ELSE codes[Min(pick)])

\* A variant of EmptyText without the guard: every text goes on to the ratios.
EmptyTextUnguarded(total_chars) == FALSE

\* if total_chars == 0
EmptyText(total_chars) == total_chars = 0

\* What a ratio over an empty text raises: the division has no value
ZeroDivisionError == "ZeroDivisionError"

detect_language_offline(raw_text, installed_codes) ==
    Bind(raw_text, LAMBDA text :
    LET devanagari_chars ==
            Cardinality({i \in 1..Len(text) : IsDevanagari(text[i])})
        bengali_chars ==
            Cardinality({i \in 1..Len(text) : IsBengali(text[i])})
        arabic_chars ==
            Cardinality({i \in 1..Len(text) : IsArabic(text[i])})
        ascii_chars ==
            Cardinality({i \in 1..Len(text) : IsAscii(text[i])})
        total_chars      == Len(text)
    IN  IF EmptyText(total_chars) THEN "en"
        ELSE IF total_chars = 0 THEN ZeroDivisionError
        ELSE IF ExceedsFraction(devanagari_chars, total_chars, 3, 10)
             THEN (IF "hi" \in installed_codes THEN "hi" ELSE "en")
        ELSE IF ExceedsFraction(bengali_chars, total_chars, 3, 10)
             THEN (IF "bn" \in installed_codes THEN "bn" ELSE "en")
        ELSE IF ExceedsFraction(arabic_chars, total_chars, 3, 10)
             THEN (IF "ur" \in installed_codes THEN "ur"
                   ELSE IF "ar" \in installed_codes THEN "ar" ELSE "en")
        ELSE IF ExceedsFraction(ascii_chars, total_chars, 85, 100)
             THEN "en"
        ELSE FirstInstalled(<<"hi", "bn", "ur">>, installed_codes))

(***************************************************************************)
(* Translation engine (external library, a stub)                           *)
(***************************************************************************)

\* len(text) < 100: shorter texts are translated as one unit
ShortTextLimit == 100

\* The pivot language of offline_translate
pivot_code == "en"

\* A handle is the pair <<from code, to code>> of the language pair it serves.
LangLetter(code) ==
    CASE code = "en" -> 101
      [] code = "hi" -> 104
      [] code = "bn" -> 98
      [] code = "ur" -> 117
      [] code = "ar" -> 97
      [] OTHER       -> 120

\* translation_obj.translate(text): the engine is opaque to this code.  The
\* stub marks its output with the pair it served, starts it with a lower-case
\* letter and leaves irregular spacing before a comma, so that the callers'
\* composition, capitalisation and spacing repairs are all visible in a result.
EngineTranslate(handle, text) ==
    <<LangLetter(handle[1]), LangLetter(handle[2]), 32, 44>> \o text

(***************************************************************************)
(* Sentence-segmented translation                                          *)
(***************************************************************************)

\* The starts of the whitespace runs that follow a sentence terminator.
SentenceBreaks(t) ==
    {i \in 2..Len(t) : IsTerminator(t[i - 1]) /\ IsSpace(t[i])}

\* The k-th smallest element of a set of numbers.
Nth(S, k) == CHOOSE x \in S : Cardinality({y \in S : y <= x}) = k

\* re.split(r'(?<=[.!?।॥])\s+', text)
SplitSentences(text) ==
    Bind(text, LAMBDA t :
        Bind(SentenceBreaks(t), LAMBDA breaks :
            Bind(Cardinality(breaks), LAMBDA n :
                [k \in 1..(n + 1) |->
                    Slice(t,
                          IF k = 1 THEN 1
                          ELSE SpaceRunEnd(t, Nth(breaks, k - 1)),
                          IF k = n + 1 THEN Len(t)
                          ELSE Nth(breaks, k) - 1)])))

\* A variant of StrippedNonEmpty that keeps the empty sentences.
StrippedKeepingEmpty(sentences) ==
    Bind(sentences, LAMBDA ss : [k \in 1..Len(ss) |-> Strip(ss[k])])

\* [sentence.strip() for sentence in sentences if sentence.strip()]
StrippedNonEmpty(sentences) ==
    Bind(sentences, LAMBDA ss :
        SelectSeq([k \in 1..Len(ss) |-> Strip(ss[k])], LAMBDA s : s # <<>>))

\* A variant of EngineInputs that splits every text of several sentences,
\* whatever its length.
EngineInputsAnyLength(text) ==
    Bind(text, LAMBDA t :
        Bind(SplitSentences(t), LAMBDA sentences :
            IF Len(sentences) <= 1 THEN <<t>>
            ELSE StrippedNonEmpty(sentences)))

\* The texts handed to translation_obj.translate, in call order.
EngineInputs(text) ==
    Bind(text, LAMBDA t :
        Bind(SplitSentences(t), LAMBDA sentences :
            IF Len(sentences) <= 1 \/ Len(t) < ShortTextLimit THEN <<t>>
            ELSE StrippedNonEmpty(sentences)))

\* ' '.join(parts)
JoinWithSpace(parts) ==
    Bind(parts, LAMBDA p :
        Flatten([k \in 1..Len(p) |->
            IF k = 1 THEN p[k] ELSE <<32>> \o p[k]]))

translate_with_sentence_splitting(text, translation_obj) ==
    Bind(EngineInputs(text), LAMBDA inputs :
        JoinWithSpace([i \in 1..Len(inputs) |->
                          EngineTranslate(translation_obj, inputs[i])]))

(***************************************************************************)
(* Translation router                                                      *)
(***************************************************************************)

\* One step of a call that the outside can observe: a call into the
\* translation library, or one of the two text functions of the router.
Ev(kind, a, b, arg) == [ev |-> kind, from |-> a, to |-> b, arg |-> arg]

\* The library calls of one offline_translate call, in program order.  The
\* library may raise at any of them (fault); "none" is a library that works.
FaultPoints ==
    {"none", "get_installed_languages",
     "direct.get_translation", "direct.translate",
     "hop1.get_translation", "hop1.translate",
     "hop2.get_translation", "hop2.translate"}

\* The translate calls of one sentence-segmented translation; a raising
\* engine ends it at the first call.
TranslateEvents(text, translation_obj, raises) ==
    Bind(EngineInputs(text), LAMBDA inputs :
        [k \in 1..(IF raises THEN 1 ELSE Len(inputs)) |->
            Ev("translate", translation_obj[1], translation_obj[2],
               inputs[k])])

\* One hop of _translate_via_pivot: the handle lookup and, when the handle
\* exists, the sentence-segmented translation: [result, trace, raised].  The
\* result is None when the handle is missing or the library raised.
PivotHop(hop_text, hop, handles, lookup_fault, translate_fault) ==
    Bind(hop_text, LAMBDA text :
    LET lookup == <<Ev("get_translation", hop[1], hop[2], <<>>)>>
    IN  IF lookup_fault
        THEN [result |-> None, trace |-> lookup, raised |-> TRUE]
        ELSE IF hop \notin handles
        THEN [result |-> None, trace |-> lookup, raised |-> FALSE]
        ELSE IF translate_fault
        THEN [result |-> None, raised |-> TRUE,
              trace |-> lookup \o TranslateEvents(text, hop, TRUE)]
        ELSE [result |-> translate_with_sentence_splitting(text, hop),
              raised |-> FALSE,
              trace |-> lookup \o TranslateEvents(text, hop, FALSE)])

\* A variant of second_hop that asks the target for its handle to the pivot.
second_hop_reversed(intermediate, pivot_lang, to_lang, handles, fault) ==
    PivotHop(intermediate, <<to_lang, pivot_lang>>, handles,
             fault = "hop2.get_translation", fault = "hop2.translate")

\* A variant of second_hop that hands back the first hop's output when the
\* second handle is missing.
second_hop_partial(intermediate, pivot_lang, to_lang, handles, fault) ==
    IF <<pivot_lang, to_lang>> \notin handles /\ fault # "hop2.get_translation"
    THEN [result |-> intermediate, raised |-> FALSE,
          trace |-> <<Ev("get_translation", pivot_lang, to_lang, <<>>)>>]
    ELSE PivotHop(intermediate, <<pivot_lang, to_lang>>, handles,
                  fault = "hop2.get_translation", fault = "hop2.translate")

\* First hop: from -> pivot
first_hop(text, from_lang, pivot_lang, handles, fault) ==
    PivotHop(text, <<from_lang, pivot_lang>>, handles,
             fault = "hop1.get_translation", fault = "hop1.translate")

\* Second hop: pivot -> to, applied to the first hop's output
second_hop(intermediate, pivot_lang, to_lang, handles, fault) ==
    PivotHop(intermediate, <<pivot_lang, to_lang>>, handles,
             fault = "hop2.get_translation", fault = "hop2.translate")

\* A variant of translate_via_pivot that looks up both handles before it
\* translates anything.
translate_via_pivot_handles_first(text, from_lang, pivot_lang, to_lang, handles, fault) ==
    IF /\ fault = "none"
       /\ <<from_lang, pivot_lang>> \in handles
       /\ <<pivot_lang, to_lang>> \notin handles
    THEN [result |-> None, raised |-> "none",
          trace |-> <<Ev("get_translation", from_lang, pivot_lang, <<>>),
                      Ev("get_translation", pivot_lang, to_lang, <<>>)>>]
    ELSE Bind(first_hop(text, from_lang, pivot_lang, handles, fault),
              LAMBDA hop1 :
        IF hop1.result = None
        THEN [result |-> None, trace |-> hop1.trace,
              raised |-> IF hop1.raised THEN fault ELSE "none"]
        ELSE Bind(second_hop(hop1.result, pivot_lang, to_lang, handles, fault),
                  LAMBDA hop2 :
                 [result |-> hop2.result, trace |-> hop1.trace \o hop2.trace,
                  raised |-> IF hop2.raised THEN fault ELSE "none"]))

\* _translate_via_pivot: [result, trace, raised].  An exception of either hop
\* is swallowed here and the result is None.
translate_via_pivot(text, from_lang, pivot_lang, to_lang, handles, fault) ==
    Bind(first_hop(text, from_lang, pivot_lang, handles, fault), LAMBDA hop1 :
        IF hop1.result = None
        THEN [result |-> None, trace |-> hop1.trace,
              raised |-> IF hop1.raised THEN fault ELSE "none"]
        ELSE Bind(second_hop(hop1.result, pivot_lang, to_lang, handles, fault),
                  LAMBDA hop2 :
                 [result |-> hop2.result, trace |-> hop1.trace \o hop2.trace,
                  raised |-> IF hop2.raised THEN fault ELSE "none"]))

\* The outcome of one offline_translate call.
\*   result  the returned text, or None
\*   report  "ok", or the message shown: "engine_unavailable" (st.warning of
\*           the gate), "missing_pack", "no_path" (the two st.warning of the
\*           tail) or "translation_error" (st.error of the except clause)
\*   missing the codes named by the missing-pack warning, in order
\*   src     the source code after the resolution of "auto"
\*   route   "direct", "pivot" or "none": the route that produced the result
\*   raised  the fault that fired in this call, or "none"
\*   trace   the observable steps, in program order
Outcome(result, report, missing, src, route, raised, trace) ==
    [result |-> result, report |-> report, missing |-> missing, src |-> src,
     route |-> route, raised |-> raised, trace |-> trace]

\* A variant of MissingPacks that names the target before the source.
MissingPacksTargetFirst(src_lang, tgt_lang, installed) ==
    (IF tgt_lang \notin installed THEN <<tgt_lang>> ELSE <<>>)
    \o (IF src_lang \notin installed THEN <<src_lang>> ELSE <<>>)

\* if not from_lang: missing.append(src_lang); if not to_lang: ...
MissingPacks(src_lang, tgt_lang, installed) ==
    (IF src_lang \notin installed THEN <<src_lang>> ELSE <<>>)
    \o (IF tgt_lang \notin installed THEN <<tgt_lang>> ELSE <<>>)

\* The tail of offline_translate: the guidance when no route gave a result.
Guidance(src_lang, tgt_lang, installed, raised, trace) ==
    LET missing == MissingPacks(src_lang, tgt_lang, installed)
    IN  Outcome(None, IF missing # <<>> THEN "missing_pack" ELSE "no_path",
                missing, src_lang, "none", raised, trace)

\* if from_lang and to_lang and pivot_lang and from_lang != to_lang
PivotGuard(src_lang, tgt_lang, installed) ==
    /\ src_lang \in installed
    /\ tgt_lang \in installed
    /\ pivot_code \in installed
    /\ src_lang # tgt_lang

\* offline_translate from the pivot attempt on (the direct route gave nothing).
PivotOrGuidance(cleaned_text, src_lang, tgt_lang, installed, handles, fault, trace) ==
    IF PivotGuard(src_lang, tgt_lang, installed)
    THEN Bind(translate_via_pivot(cleaned_text, src_lang, pivot_code,
                                  tgt_lang, handles, fault),
              LAMBDA pivot :
                 IF pivot.result # None
                 THEN Outcome(postprocess_translation(pivot.result, tgt_lang),
                              "ok", <<>>, src_lang, "pivot", pivot.raised,
                              trace \o pivot.trace)
                 ELSE Guidance(src_lang, tgt_lang, installed, pivot.raised,
                               trace \o pivot.trace))
    ELSE Guidance(src_lang, tgt_lang, installed, "none", trace)

\* A variant of translation_error without the except clause: the exception
\* leaves offline_translate.
translation_error_propagated(src_lang, fault, trace) ==
    Outcome(None, "exception", <<>>, src_lang, "none", fault, trace)

\* except Exception as e: st.error(...); return None
translation_error(src_lang, fault, trace) ==
    Outcome(None, "translation_error", <<>>, src_lang, "none", fault, trace)

\* A variant of DirectResult that returns the engine's output as it is.
DirectResultUnrepaired(cleaned_text, translation_obj, tgt_lang) ==
    translate_with_sentence_splitting(cleaned_text, translation_obj)

\* translated = _translate_with_sentence_splitting(cleaned_text, translation_obj)
\* translated = _postprocess_translation(translated, tgt_lang)
DirectResult(cleaned_text, translation_obj, tgt_lang) ==
    postprocess_translation(
        translate_with_sentence_splitting(cleaned_text, translation_obj),
        tgt_lang)

\* offline_translate from the direct attempt on, with the source resolved.
DirectOrPivot(text, src, tgt_lang, installed, handles, fault, trace0) ==
    Bind(src, LAMBDA src_lang :
    Bind(preprocess_text_for_translation(text), LAMBDA cleaned_text :
    LET direct == <<src_lang, tgt_lang>>
        trace1 == trace0 \o <<Ev("preprocess", "-", "-", text)>>
        trace2 == trace1
                  \o <<Ev("get_translation", src_lang, tgt_lang, <<>>)>>
    IN  IF src_lang \in installed /\ tgt_lang \in installed
        THEN IF fault = "direct.get_translation"
             THEN translation_error(src_lang, fault, trace2)
             ELSE IF direct \in handles
             THEN IF fault = "direct.translate"
                  THEN translation_error(
                           src_lang, fault,
                           trace2 \o TranslateEvents(cleaned_text, direct,
                                                     TRUE))
                  ELSE Outcome(DirectResult(cleaned_text, direct, tgt_lang),
                               "ok", <<>>, src_lang, "direct", "none",
                               trace2 \o TranslateEvents(cleaned_text, direct,
                                                         FALSE))
             ELSE PivotOrGuidance(cleaned_text, src_lang, tgt_lang, installed,
                                  handles, fault, trace2)
        ELSE PivotOrGuidance(cleaned_text, src_lang, tgt_lang, installed,
                             handles, fault, trace1)))

\* src_lang = _detect_language_offline(text, installed) when src_lang == "auto"
ResolveSource(text, src_lang, installed) ==
    IF src_lang = "auto" THEN detect_language_offline(text, installed)
    ELSE src_lang

\* A variant of DetectInput that detects on the preprocessed text.
DetectInputCleaned(text) == preprocess_text_for_translation(text)

\* The text the language detector is applied to
DetectInput(text) == text

\* A variant of translate_unavailable without the availability gate.
translate_gate_omitted(available) == FALSE

\* if not _argos_available
translate_unavailable(available) == ~available

offline_translate(text, src_lang, tgt_lang, available, installed, handles, fault) ==
    LET query  == <<Ev("get_installed_languages", "-", "-", <<>>)>>
        detect == IF src_lang = "auto"
                  THEN <<Ev("detect", "-", "-", DetectInput(text))>>
                  ELSE <<>>
    IN  IF translate_unavailable(available)
        THEN Outcome(None, "engine_unavailable", <<>>, src_lang, "none",
                     "none", <<>>)
        ELSE IF fault = "get_installed_languages"
        THEN translation_error(src_lang, fault, query)
        ELSE DirectOrPivot(text,
                           ResolveSource(DetectInput(text), src_lang,
                                         installed),
                           tgt_lang, installed, handles, fault,
                           query \o detect)

(***************************************************************************)
(* Provider selection (text_to_speech)                                     *)
(***************************************************************************)

\* os.getenv(name, "")
Getenv(environ, name) == IF name \in DOMAIN environ THEN environ[name] ELSE <<>>

\* A variant of select_provider that tests the HeyGen key before the D-ID key.
select_provider_heygen_first(environ) ==
    LET did_api_key       == Getenv(environ, "DID_API_KEY")
        heygen_api_key    == Getenv(environ, "HEYGEN_API_KEY")
        synthesia_api_key == Getenv(environ, "SYNTHESIA_API_KEY")
        elai_api_key      == Getenv(environ, "ELAI_API_KEY")
    IN  IF heygen_api_key # <<>>
        THEN [use_api |-> TRUE, api_provider |-> "heygen",
              api_key |-> heygen_api_key,
              avatar_id |-> Getenv(environ, "HEYGEN_AVATAR_ID")]
        ELSE IF did_api_key # <<>>
        THEN [use_api |-> TRUE, api_provider |-> "d-id",
              api_key |-> did_api_key,
              avatar_id |-> Getenv(environ, "DID_AVATAR_ID")]
        ELSE IF synthesia_api_key # <<>>
        THEN [use_api |-> TRUE, api_provider |-> "synthesia",
              api_key |-> synthesia_api_key,
              avatar_id |-> Getenv(environ, "SYNTHESIA_AVATAR_ID")]
        ELSE IF elai_api_key # <<>>
        THEN [use_api |-> TRUE, api_provider |-> "elai",
              api_key |-> elai_api_key,
              avatar_id |-> Getenv(environ, "ELAI_AVATAR_ID")]
        ELSE [use_api |-> FALSE, api_provider |-> "heygen",
              api_key |-> None, avatar_id |-> None]

\* The if / elif chain of text_to_speech over the four provider keys.
select_provider(environ) ==
    LET did_api_key       == Getenv(environ, "DID_API_KEY")
        heygen_api_key    == Getenv(environ, "HEYGEN_API_KEY")
        synthesia_api_key == Getenv(environ, "SYNTHESIA_API_KEY")
        elai_api_key      == Getenv(environ, "ELAI_API_KEY")
    IN  IF did_api_key # <<>>
        THEN [use_api |-> TRUE, api_provider |-> "d-id",
              api_key |-> did_api_key,
              avatar_id |-> Getenv(environ, "DID_AVATAR_ID")]
        ELSE IF heygen_api_key # <<>>
        THEN [use_api |-> TRUE, api_provider |-> "heygen",
              api_key |-> heygen_api_key,
              avatar_id |-> Getenv(environ, "HEYGEN_AVATAR_ID")]
        ELSE IF synthesia_api_key # <<>>
        THEN [use_api |-> TRUE, api_provider |-> "synthesia",
              api_key |-> synthesia_api_key,
              avatar_id |-> Getenv(environ, "SYNTHESIA_AVATAR_ID")]
        ELSE IF elai_api_key # <<>>
        THEN [use_api |-> TRUE, api_provider |-> "elai",
              api_key |-> elai_api_key,
              avatar_id |-> Getenv(environ, "ELAI_AVATAR_ID")]
        ELSE [use_api |-> FALSE, api_provider |-> "heygen",
              api_key |-> None, avatar_id |-> None]

(***************************************************************************)
(* Capability prober: the speech model directory                           *)
(***************************************************************************)

\* candidates of initialize_offline_resources, in order
candidates ==
    <<"models/vosk/en/vosk-model-small-en-us-0.15",
      "models/vosk/en",
      "models/vosk/vosk-model-small-en-us-0.15">>

\* A file system is [dirs, marked]: the directories that exist and those of
\* them that hold the marker file conf.
\* model_path after lines 67-78; "" when nothing was found.
ResolveModelPath(env_path, fs) ==
    IF env_path # "" /\ env_path \in fs.dirs THEN env_path
    ELSE LET hits == {k \in 1..Len(candidates) :
                         candidates[k] \in fs.dirs /\ candidates[k] \in fs.marked}
         IN  IF hits = {} THEN env_path ELSE candidates[Min(hits)]

\* if model_path and os.path.isdir(model_path)
Loadable(model_path, fs) == model_path # "" /\ model_path \in fs.dirs

(***************************************************************************)
(* State                                                                   *)
(***************************************************************************)

VARIABLES
    environ,              \* os.environ: the provider keys and avatar ids
    installed,            \* codes of argostranslate's installed languages
    handles,              \* language pairs get_translation has a handle for
    fault,                \* the library call that raises, or "none"
    request,              \* the arguments of the call under analysis
    vosk_available,       \* _vosk_available
    pyttsx3_available,    \* _pyttsx3_available
    argos_available,      \* _argos_available
    vosk_model,           \* _vosk_model: the directory it was loaded from
    pyttsx3_engine,       \* _pyttsx3_engine
    offline_capabilities, \* st.session_state["offline_capabilities"]: <<>>
                          \* while unset, else <<summary>>
    last,                 \* the last call: its name, arguments and outcome
    engine_called,        \* capabilities whose engine an operation has called
    probed_ok,            \* capabilities a probe has found available
    running               \* the invocations in flight: for each thread its
                          \* position and locals (none while the operations
                          \* run one at a time)

envVars == <<environ, installed, handles, fault, request, running>>

flagVars ==
    <<vosk_available, pyttsx3_available, argos_available, vosk_model,
      pyttsx3_engine>>

vars ==
    <<environ, installed, handles, fault, request, vosk_available,
      pyttsx3_available, argos_available, vosk_model, pyttsx3_engine,
      offline_capabilities, last, engine_called, probed_ok, running>>

\* None for the two engine handles
NoHandle == "None"

NoCall == [op |-> "none"]

\* A variant of Summary in which a sub-probe that fails ends the probing: the
\* sub-probes after it are recorded as false.
SummaryUntilFailure(vosk, pyttsx3, argos) ==
    [vosk |-> vosk, pyttsx3 |-> vosk /\ pyttsx3,
     argos |-> vosk /\ pyttsx3 /\ argos]

\* summary = {"vosk": ..., "pyttsx3": ..., "argos": ...}
Summary(vosk, pyttsx3, argos) ==
    [vosk |-> vosk, pyttsx3 |-> pyttsx3, argos |-> argos]

\* The module as imported: nothing probed, nothing loaded, no session entry.
ModuleInit ==
    /\ vosk_available = FALSE
    /\ pyttsx3_available = FALSE
    /\ argos_available = FALSE
    /\ vosk_model = NoHandle
    /\ pyttsx3_engine = NoHandle
    /\ offline_capabilities = <<>>
    /\ last = NoCall
    /\ engine_called = {}
    /\ probed_ok = {}
    /\ running = <<>>

(***************************************************************************)
(* Operations                                                              *)
(***************************************************************************)

\* if not _vosk_available or _vosk_model is None
stt_unavailable(available, model) == ~available \/ model = NoHandle

\* if not _pyttsx3_available or _pyttsx3_engine is None
tts_unavailable(available, engine) == ~available \/ engine = NoHandle

\* output_file = "offline_output.mp3"
OutputFile ==
    <<111, 102, 102, 108, 105, 110, 101, 95, 111, 117, 116, 112, 117, 116,
      46, 109, 112, 51>>

\* A variant of initialize_offline_resources that keeps no cache: every call
\* runs the three sub-probes again, whatever the flags say.
initialize_offline_resources_uncached(vosk_import_ok, env_path, fs, model_load_ok, tts_ok, argos_ok) ==
    LET model_path  == ResolveModelPath(env_path, fs)
        vosk_load   == vosk_import_ok /\ Loadable(model_path, fs)
        vosk_ok     == vosk_load /\ model_load_ok
        argos_done  == argos_ok /\ Cardinality(installed) > 0
        summary     == Summary(vosk_available \/ vosk_ok,
                               pyttsx3_available \/ tts_ok,
                               argos_available \/ argos_done)
        trace ==
            (IF vosk_load THEN <<Ev("Model", model_path, "-", <<>>)>>
             ELSE <<>>)
            \o <<Ev("pyttsx3.init", "-", "-", <<>>)>>
            \o (IF argos_ok
                THEN <<Ev("get_installed_languages", "-", "-", <<>>)>>
                ELSE <<>>)
    IN  /\ vosk_model' = IF vosk_ok THEN model_path ELSE vosk_model
        /\ vosk_available' = (vosk_available \/ vosk_ok)
        /\ pyttsx3_engine' = IF tts_ok THEN "Engine" ELSE pyttsx3_engine
        /\ pyttsx3_available' = (pyttsx3_available \/ tts_ok)
        /\ argos_available' = (argos_available \/ argos_done)
        /\ offline_capabilities' = <<summary>>
        /\ last' = [op |-> "initialize_offline_resources",
                    out |-> [result |-> summary, trace |-> trace]]
        /\ probed_ok' = probed_ok
               \cup (IF vosk_ok THEN {"vosk"} ELSE {})
               \cup (IF tts_ok THEN {"pyttsx3"} ELSE {})
               \cup (IF argos_done THEN {"argos"} ELSE {})
        /\ UNCHANGED <<envVars, engine_called>>

\* initialize_offline_resources().  The inputs are what the three sub-probes
\* meet: whether vosk imports, VOSK_MODEL_PATH and the file system, whether
\* Model(model_path) loads, whether pyttsx3 imports and initialises, whether
\* argostranslate imports and answers the installed-language query.
initialize_offline_resources(vosk_import_ok, env_path, fs, model_load_ok, tts_ok, argos_ok) ==
    IF vosk_available /\ pyttsx3_available /\ argos_available
    THEN /\ offline_capabilities' = <<Summary(TRUE, TRUE, TRUE)>>
         /\ last' = [op |-> "initialize_offline_resources",
                     out |-> [result |-> Summary(TRUE, TRUE, TRUE),
                              trace |-> <<>>]]
         /\ UNCHANGED <<envVars, flagVars, engine_called, probed_ok>>
    ELSE LET model_path  == ResolveModelPath(env_path, fs)
             vosk_load   == ~vosk_available /\ vosk_import_ok
                            /\ Loadable(model_path, fs)
             vosk_ok     == vosk_load /\ model_load_ok
             tts_init    == ~pyttsx3_available
             tts_done    == tts_init /\ tts_ok
             argos_query == ~argos_available /\ argos_ok
             argos_done  == argos_query /\ Cardinality(installed) > 0
             summary     == Summary(vosk_available \/ vosk_ok,
                                    pyttsx3_available \/ tts_done,
                                    argos_available \/ argos_done)
             trace ==
                 (IF vosk_load THEN <<Ev("Model", model_path, "-", <<>>)>>
                  ELSE <<>>)
                 \o (IF tts_init THEN <<Ev("pyttsx3.init", "-", "-", <<>>)>>
                     ELSE <<>>)
                 \o (IF argos_query
                     THEN <<Ev("get_installed_languages", "-", "-", <<>>)>>
                     ELSE <<>>)
         IN  /\ vosk_model' = IF vosk_ok THEN model_path ELSE vosk_model
             /\ vosk_available' = (vosk_available \/ vosk_ok)
             /\ pyttsx3_engine' = IF tts_done THEN "Engine" ELSE pyttsx3_engine
             /\ pyttsx3_available' = (pyttsx3_available \/ tts_done)
             /\ argos_available' = (argos_available \/ argos_done)
             /\ offline_capabilities' = <<summary>>
             /\ last' = [op |-> "initialize_offline_resources",
                         out |-> [result |-> summary, trace |-> trace]]
             /\ probed_ok' = probed_ok
                    \cup (IF vosk_ok THEN {"vosk"} ELSE {})
                    \cup (IF tts_done THEN {"pyttsx3"} ELSE {})
                    \cup (IF argos_done THEN {"argos"} ELSE {})
             /\ UNCHANGED <<envVars, engine_called>>

\* offline_stt(): heard is the text the recogniser assembled (text_out),
\* raises whether pyaudio or the recogniser raised.
offline_stt(heard, raises) ==
    /\ last' = [op |-> "offline_stt",
                out |->
                  IF stt_unavailable(vosk_available, vosk_model)
                  THEN [result |-> None, report |-> "engine_unavailable",
                        trace |-> <<>>]
                  ELSE IF raises
                  THEN [result |-> None, report |-> "stt_error",
                        trace |-> <<Ev("KaldiRecognizer", vosk_model, "-",
                                       <<>>)>>]
                  ELSE [result |-> IF heard # <<>> THEN heard ELSE None,
                        report |-> "ok",
                        trace |-> <<Ev("KaldiRecognizer", vosk_model, "-",
                                       <<>>)>>]]
    /\ engine_called' =
           IF stt_unavailable(vosk_available, vosk_model) THEN engine_called
           ELSE engine_called \cup {"vosk"}
    /\ UNCHANGED <<envVars, flagVars, offline_capabilities, probed_ok>>

\* offline_tts(text, language): voice_found whether a voice matches the
\* language, written whether the output file exists afterwards, raises
\* whether the engine raised.
offline_tts(text, language, voice_found, written, raises) ==
    /\ last' = [op |-> "offline_tts", text |-> text, language |-> language,
                out |->
                  IF tts_unavailable(pyttsx3_available, pyttsx3_engine)
                  THEN [result |-> None, report |-> "engine_unavailable",
                        trace |-> <<>>]
                  ELSE IF raises
                  THEN [result |-> None, report |-> "tts_error",
                        trace |-> <<Ev("getProperty", "voices", "-", <<>>)>>]
                  ELSE [result |-> IF written THEN OutputFile ELSE None,
                        report |-> "ok",
                        trace |->
                          <<Ev("getProperty", "voices", "-", <<>>)>>
                          \o (IF voice_found
                              THEN <<Ev("setProperty", "voice", language,
                                        <<>>)>>
                              ELSE <<>>)
                          \o <<Ev("save_to_file", "-", "-", text),
                               Ev("runAndWait", "-", "-", <<>>)>>]]
    /\ engine_called' =
           IF tts_unavailable(pyttsx3_available, pyttsx3_engine)
           THEN engine_called
           ELSE engine_called \cup {"pyttsx3"}
    /\ UNCHANGED <<envVars, flagVars, offline_capabilities, probed_ok>>

\* offline_translate(text, src_lang, tgt_lang) against the library's state.
offline_translate_call(text, src_lang, tgt_lang) ==
    LET out == offline_translate(text, src_lang, tgt_lang, argos_available,
                                 installed, handles, fault)
    IN  /\ last' = [op |-> "offline_translate", text |-> text,
                    src_lang |-> src_lang, tgt_lang |-> tgt_lang, out |-> out]
        /\ engine_called' =
               IF out.trace = <<>> THEN engine_called
               ELSE engine_called \cup {"argos"}
        /\ UNCHANGED <<envVars, flagVars, offline_capabilities, probed_ok>>

\* _detect_language_offline(text, installed) on the text under analysis.
detect_call ==
    /\ last' = [op |-> "_detect_language_offline",
                out |-> detect_language_offline(request.text, installed)]
    /\ UNCHANGED <<envVars, flagVars, offline_capabilities, engine_called,
                   probed_ok>>

\* _preprocess_text_for_translation(text)
preprocess_call(text) ==
    /\ last' = [op |-> "_preprocess_text_for_translation", text |-> text,
                out |-> preprocess_text_for_translation(text)]
    /\ UNCHANGED <<envVars, flagVars, offline_capabilities, engine_called,
                   probed_ok>>

\* _postprocess_translation(text, target_lang)
postprocess_call(text, target_lang) ==
    /\ last' = [op |-> "_postprocess_translation", text |-> text,
                target_lang |-> target_lang,
                out |-> postprocess_translation(text, target_lang)]
    /\ UNCHANGED <<envVars, flagVars, offline_capabilities, engine_called,
                   probed_ok>>

\* _translate_with_sentence_splitting(text, translation_obj), with the texts
\* the engine was called with.
translate_with_sentence_splitting_call(text, translation_obj) ==
    /\ last' = [op |-> "_translate_with_sentence_splitting", text |-> text,
                translation_obj |-> translation_obj,
                calls |-> EngineInputs(text),
                out |-> translate_with_sentence_splitting(text,
                                                          translation_obj)]
    /\ engine_called' = engine_called \cup {"argos"}
    /\ UNCHANGED <<envVars, flagVars, offline_capabilities, probed_ok>>

\* The provider selection of text_to_speech.
text_to_speech_select ==
    /\ last' = [op |-> "text_to_speech", out |-> select_provider(environ)]
    /\ UNCHANGED <<envVars, flagVars, offline_capabilities, engine_called,
                   probed_ok>>

(***************************************************************************)
(* Inputs                                                                  *)
(***************************************************************************)

\* Repetitions of the letter 'a' that pad the long text of Texts up to the
\* short-text limit.
PadLen == 98

\* '', 'hi', ' a , b', nine spaces before one Devanagari letter, two
\* Devanagari letters, and a long text of two sentences.
Texts ==
    { <<>>,
      <<104, 105>>,
      <<32, 97, 32, 44, 32, 98>>,
      <<32, 32, 32, 32, 32, 32, 32, 32, 32, 2309>>,
      <<2344, 2350>>,
      [i \in 1..PadLen |-> 97] \o <<46, 32, 98>> }

Langs == {"en", "hi", "bn"}

SourceCodes == Langs \cup {"auto"}

TargetCodes == Langs

\* The pairs a handle may exist for: the direct pair hi->bn, the two hops of
\* its pivot route, and English to itself.
PairUniverse ==
    {<<"hi", "bn">>, <<"hi", "en">>, <<"en", "bn">>, <<"en", "en">>}

\* A library state: a handle exists only between installed languages.
LibraryStates ==
    {lib \in [installed : SUBSET Langs, handles : SUBSET PairUniverse] :
        \A h \in lib.handles : h[1] \in lib.installed /\ h[2] \in lib.installed}

\* The process environments: each provider key and avatar id is unset, set to
\* the empty string, or set to a value of its own.
EnvNames ==
    <<"DID_API_KEY", "HEYGEN_API_KEY", "SYNTHESIA_API_KEY", "ELAI_API_KEY",
      "DID_AVATAR_ID", "HEYGEN_AVATAR_ID", "SYNTHESIA_AVATAR_ID",
      "ELAI_AVATAR_ID">>

EnvValue(k) == <<48 + k>>

Environs ==
    UNION {{[n \in {EnvNames[k] : k \in set} |->
                LET k == CHOOSE j \in set : EnvNames[j] = n
                IN  IF k \in empty THEN <<>> ELSE EnvValue(k)] :
              empty \in SUBSET set} :
           set \in SUBSET (1..Len(EnvNames))}

NoEnviron == [n \in {} |-> <<>>]

\* The file systems and VOSK_MODEL_PATH values the speech sub-probe meets.
FsCases ==
    { [env_path |-> "", dirs |-> {}, marked |-> {}],
      [env_path |-> "/opt/vosk", dirs |-> {"/opt/vosk"}, marked |-> {}],
      [env_path |-> "/opt/vosk", dirs |-> {candidates[2]},
       marked |-> {candidates[2]}],
      [env_path |-> "", dirs |-> {candidates[1], candidates[3]},
       marked |-> {candidates[3]}],
      [env_path |-> "", dirs |-> {candidates[1], candidates[2]},
       marked |-> {candidates[1], candidates[2]}] }

(***************************************************************************)
(* Specifications                                                          *)
(***************************************************************************)

Request(text, src_lang, tgt_lang) ==
    [text |-> text, src_lang |-> src_lang, tgt_lang |-> tgt_lang]

NoRequest == Request(<<>>, "auto", "en")

\* The life of the module: probes and the three offline operations, in any
\* order, against a library that does not fail.
Init ==
    /\ ModuleInit
    /\ environ = NoEnviron
    /\ \E lib \in LibraryStates :
           /\ lib.handles = {} \/ lib.handles = {<<"hi", "en">>}
           /\ installed = lib.installed
           /\ handles = lib.handles
    /\ fault = "none"
    /\ request = NoRequest

Probe ==
    \E vosk_import_ok, model_load_ok, tts_ok, argos_ok \in BOOLEAN :
        \E c \in FsCases :
            initialize_offline_resources(vosk_import_ok, c.env_path, c,
                                         model_load_ok, tts_ok, argos_ok)

Listen == \E heard \in {<<>>, <<104, 105>>} : \E raises \in BOOLEAN :
              offline_stt(heard, raises)

Speak ==
    \E voice_found, written, raises \in BOOLEAN :
        offline_tts(<<104, 105>>, "en", voice_found, written, raises)

Translate ==
    \E text \in {<<104, 105>>, <<2344, 2350>>} :
        \E src_lang \in {"auto", "hi"} :
            offline_translate_call(text, src_lang, "en")

Next == Probe \/ Listen \/ Speak \/ Translate

Spec == Init /\ [][Next]_vars

\* One translation request against every library state, working or failing,
\* with the translation capability probed or not.
InitTranslate ==
    /\ ModuleInit
    /\ environ = NoEnviron
    /\ \E lib \in LibraryStates :
           /\ installed = lib.installed
           /\ handles = lib.handles
    /\ fault \in FaultPoints
    /\ request \in {Request(text, src_lang, tgt_lang) :
                      text \in Texts, src_lang \in SourceCodes,
                      tgt_lang \in TargetCodes}

\* The translation sub-probe alone.
ProbeTranslation ==
    \E argos_ok \in BOOLEAN :
        initialize_offline_resources(FALSE, "", [dirs |-> {}, marked |-> {}],
                                     FALSE, FALSE, argos_ok)

TranslateRequest ==
    offline_translate_call(request.text, request.src_lang, request.tgt_lang)

NextTranslate == ProbeTranslation \/ TranslateRequest

SpecTranslate == InitTranslate /\ [][NextTranslate]_vars


\* The provider selection of text_to_speech under every environment.
InitProvider ==
    /\ ModuleInit
    /\ environ \in Environs
    /\ installed = {}
    /\ handles = {}
    /\ fault = "none"
    /\ request = NoRequest

NextProvider == text_to_speech_select

SpecProvider == InitProvider /\ [][NextProvider]_vars

\* Longest text handed to the language detector
MaxDetectLen == 3

\* Letters of the scripts the detector tells apart: Devanagari a and danda,
\* Bengali ka, Arabic alef, Latin a and Z, and the non-ASCII Latin e with acute.
DetectAlphabet == {2309, 2404, 2453, 1575, 97, 90, 233}

\* n times the character c
Repeat(c, n) == [i \in 1..n |-> c]

\* Mixed texts at the thresholds of the detector: an ASCII share of 6/7 and of
\* 17/20 (= 0.85), a Devanagari share of 3/10 (= 0.3) and of 4/10, Devanagari
\* and Bengali both at 2/5, Arabic at 2/5 beside Bengali at 1/5.
ThresholdTexts ==
    { Repeat(97, 6) \o <<233>>,
      Repeat(97, 17) \o Repeat(233, 3),
      Repeat(97, 7) \o Repeat(2309, 3),
      Repeat(97, 6) \o Repeat(2309, 4),
      <<2453, 2453, 2309, 2309, 97>>,
      <<1575, 2453, 1575, 97, 233>> }

DetectTexts ==
    UNION {[1..n -> DetectAlphabet] : n \in 0..MaxDetectLen} \cup ThresholdTexts

DetectCodes == {"en", "hi", "bn", "ur", "ar"}

\* The language detector on every short text and every installed set.
InitDetect ==
    /\ ModuleInit
    /\ environ = NoEnviron
    /\ installed \in SUBSET DetectCodes
    /\ handles = {}
    /\ fault = "none"
    /\ \E text \in DetectTexts : request = Request(text, "auto", "en")

NextDetect == detect_call

SpecDetect == InitDetect /\ [][NextDetect]_vars

\* Most pieces a text handed to the normalizer is made of
MaxPieces == 3

\* The pieces: a space, a tab, the letter a, a full stop, a comma, a URL, the
\* two halves of an e-mail address, and the sharp s.
NormalizerPieces ==
    { <<32>>, <<9>>, <<97>>, <<46>>, <<44>>,
      <<104, 116, 116, 112, 58, 47, 47, 120>>,
      <<109, 101, 64, 120>>,
      <<46, 111, 114, 103>>,
      <<223>> }

NormalizerTexts ==
    {Flatten(pieces) :
        pieces \in UNION {[1..n -> NormalizerPieces] : n \in 0..MaxPieces}}

\* The two text functions of the normalizer on every text made of the pieces;
\* the preprocessor also on its own output.
InitNormalize ==
    /\ ModuleInit
    /\ environ = NoEnviron
    /\ installed = {}
    /\ handles = {}
    /\ fault = "none"
    /\ \E text \in NormalizerTexts : request = Request(text, "auto", "en")

Preprocess == preprocess_call(request.text)

PreprocessAgain ==
    /\ last.op = "_preprocess_text_for_translation"
    /\ preprocess_call(last.out)

Postprocess ==
    \E target_lang \in {"en", "hi"} : postprocess_call(request.text, target_lang)

NextNormalize == Preprocess \/ PreprocessAgain \/ Postprocess

SpecNormalize == InitNormalize /\ [][NextNormalize]_vars

\* Most pieces a text handed to the sentence splitter is made of
MaxSentencePieces == 3

\* The pieces: the letter a, a space, a full stop with a space, a question
\* mark, a danda with a newline, and two runs of the letter a that bring a
\* text of three pieces to either side of the short-text limit.
SentencePieces ==
    { <<97>>, <<32>>, <<46, 32>>, <<63>>, <<2404, 10>>,
      Repeat(97, PadLen - 2), Repeat(97, PadLen - 1) }

SentenceTexts ==
    {Flatten(pieces) :
        pieces \in UNION {[1..n -> SentencePieces] : n \in 0..MaxSentencePieces}}

\* The sentence splitter on every text made of the pieces, with either of two
\* engine handles.
InitSegment ==
    /\ ModuleInit
    /\ environ = NoEnviron
    /\ installed = {"en", "hi", "bn"}
    /\ handles = {<<"hi", "en">>, <<"en", "bn">>}
    /\ fault = "none"
    /\ \E text \in SentenceTexts : request = Request(text, "hi", "en")

NextSegment ==
    \E translation_obj \in handles :
        translate_with_sentence_splitting_call(request.text, translation_obj)

SpecSegment == InitSegment /\ [][NextSegment]_vars

\* The probe alone, called again and again, with the translation library
\* empty or holding one language.
InitProbe ==
    /\ ModuleInit
    /\ environ = NoEnviron
    /\ installed \in {{}, {"en"}}
    /\ handles = {}
    /\ fault = "none"
    /\ request = NoRequest

SpecProbe == InitProbe /\ [][Probe]_vars

(***************************************************************************)
(* Lip sync (lip_sync_utils.py, text_to_speech)                            *)
(***************************************************************************)

\* What a lip-sync call meets outside the code:
\*   wav2lip       a wav2lip or Wav2Lip entry exists in the working directory
\*   wav2lip_ok    the inference subprocess returns 0
\*   moviepy       MOVIEPY_AVAILABLE
\*   audio_exists, avatar_exists   the two input files exist
\*   write_ok      loading the clips and writing the video do not fail
\*   import_ok     video_api_alternatives imports
\*   remote_ok     the provider's HTTP exchange ends with the video downloaded
Worlds ==
    [wav2lip : BOOLEAN, wav2lip_ok : BOOLEAN, moviepy : BOOLEAN,
     audio_exists : BOOLEAN, avatar_exists : BOOLEAN, write_ok : BOOLEAN,
     import_ok : BOOLEAN, remote_ok : BOOLEAN]

\* output_file = "lip_sync_output.mp4"
LipSyncOutput ==
    <<108, 105, 112, 95, 115, 121, 110, 99, 95, 111, 117, 116, 112, 117, 116,
      46, 109, 112, 52>>

\* LipSyncGenerator._generate_with_mediapipe: the MoviePy merge
generate_with_mediapipe(moviepy_available, world) ==
    /\ moviepy_available
    /\ world.audio_exists
    /\ world.avatar_exists
    /\ world.write_ok

\* LipSyncGenerator._generate_simple_merge
generate_simple_merge(moviepy_available, world) ==
    /\ moviepy_available
    /\ world.audio_exists
    /\ world.avatar_exists
    /\ world.write_ok

\* LipSyncGenerator.generate_lip_sync_video: [method, result]
generate_lip_sync_video(world) ==
    IF world.wav2lip
    THEN [method |-> "wav2lip", result |-> world.wav2lip_ok]
    ELSE IF world.moviepy
    THEN [method |-> "moviepy",
          result |-> generate_with_mediapipe(world.moviepy, world)]
    ELSE [method |-> "simple_merge",
          result |-> generate_simple_merge(world.moviepy, world)]

\* VideoGenerationAPIs.generate_with_did up to its result: None without
\* text_content, before any request is made.
generate_with_did(text_content, remote_ok, output_file) ==
    IF text_content = None \/ text_content = <<>> THEN None
    ELSE IF remote_ok THEN output_file ELSE None

\* The provider function create_lip_sync_video calls, and its result; D-ID is
\* called without text_content (its default is None).
ProviderCall(api_provider, remote_ok, output_file) ==
    CASE api_provider = "d-id" ->
             [fn |-> "generate_with_did", text_content |-> None,
              result |-> generate_with_did(None, remote_ok, output_file)]
      [] api_provider = "synthesia" ->
             [fn |-> "generate_with_synthesia", text_content |-> None,
              result |-> IF remote_ok THEN output_file ELSE None]
      [] api_provider = "elai" ->
             [fn |-> "generate_with_elai", text_content |-> None,
              result |-> IF remote_ok THEN output_file ELSE None]
      [] OTHER ->
             [fn |-> "generate_with_heygen", text_content |-> None,
              result |-> IF remote_ok THEN output_file ELSE None]

\* A variant of RemoteEnabled that looks at use_api alone.
RemoteEnabledByFlag(use_api, api_key) == use_api

\* if use_api and api_key
RemoteEnabled(use_api, api_key) ==
    use_api /\ api_key # None /\ api_key # <<>>

\* create_lip_sync_video: what it returned, the remote function it called
\* ("none" when it called none) with that function's result, and the local
\* generator's method ("none" when it was not invoked) with its result.
create_lip_sync_video(use_api, api_provider, api_key, output_file, world) ==
    LET remote ==
            IF ~RemoteEnabled(use_api, api_key)
            THEN [fn |-> "none", text_content |-> None, result |-> None]
            ELSE IF world.import_ok
            THEN ProviderCall(api_provider, world.remote_ok, output_file)
            ELSE [fn |-> "generate_with_heygen_api", text_content |-> None,
                  result |-> IF world.remote_ok THEN output_file ELSE None]
        local == generate_lip_sync_video(world)
    IN  IF remote.result # None /\ remote.result # <<>>
        THEN [result |-> remote.result, remote |-> remote,
              local |-> [method |-> "none", result |-> FALSE]]
        ELSE [result |-> IF local.result THEN output_file ELSE None,
              remote |-> remote, local |-> local]

\* The parameters of create_lip_sync_video (lip_sync_utils.py lines 319-321)
create_lip_sync_video_parameters ==
    {"audio_file", "avatar_file", "output_file", "use_api", "api_provider",
     "api_key", "avatar_id"}

\* The keyword arguments of the call in text_to_speech (main.py lines 350-354)
text_to_speech_keywords ==
    {"use_api", "api_provider", "api_key", "avatar_id", "text_content"}

\* The lip-sync part of text_to_speech: the provider selection, the call of
\* create_lip_sync_video and what the user is told.  A call with a keyword
\* the function does not have raises TypeError before the function runs; the
\* handler of text_to_speech turns it into a warning.
text_to_speech_lip_sync(text, enable_lip_sync, env, world) ==
    LET selection == select_provider(env)
    IN  IF ~enable_lip_sync
        THEN [report |-> "no_lip_sync", selection |-> selection,
              call |-> [raised |-> "none"]]
        ELSE IF ~(text_to_speech_keywords \subseteq
                      create_lip_sync_video_parameters)
        THEN [report |-> "lip_sync_failed", selection |-> selection,
              call |-> [raised |-> "TypeError"]]
        ELSE LET made == create_lip_sync_video(
                             selection.use_api, selection.api_provider,
                             selection.api_key, LipSyncOutput, world)
             IN  [report |-> IF made.result # None THEN "generated"
                             ELSE "original",
                  selection |-> selection,
                  call |-> [raised |-> "none", made |-> made]]

\* LipSyncGenerator().generate_lip_sync_video(audio, avatar, output)
generate_lip_sync_video_call(world) ==
    /\ last' = [op |-> "generate_lip_sync_video", world |-> world,
                out |-> generate_lip_sync_video(world)]
    /\ UNCHANGED <<envVars, flagVars, offline_capabilities, engine_called,
                   probed_ok>>

\* create_lip_sync_video(audio, avatar, output, use_api, api_provider, api_key)
create_lip_sync_video_call(use_api, api_provider, api_key, world) ==
    /\ last' = [op |-> "create_lip_sync_video", use_api |-> use_api,
                api_provider |-> api_provider, api_key |-> api_key,
                world |-> world,
                out |-> create_lip_sync_video(use_api, api_provider, api_key,
                                              LipSyncOutput, world)]
    /\ UNCHANGED <<envVars, flagVars, offline_capabilities, engine_called,
                   probed_ok>>

\* text_to_speech(text, language, enable_lip_sync) from the provider
\* selection on, with the lip-sync module imported and an avatar video found.
text_to_speech_call(text, enable_lip_sync, world) ==
    /\ last' = [op |-> "text_to_speech.lip_sync", text |-> text,
                enable_lip_sync |-> enable_lip_sync, world |-> world,
                out |-> text_to_speech_lip_sync(text, enable_lip_sync,
                                                environ, world)]
    /\ UNCHANGED <<envVars, flagVars, offline_capabilities, engine_called,
                   probed_ok>>

\* The environments of the lip-sync calls: the D-ID key and the HeyGen key,
\* each unset or set.
LipSyncEnvirons ==
    {[n \in names |-> IF n = "DID_API_KEY" THEN EnvValue(1) ELSE EnvValue(2)] :
        names \in SUBSET {"DID_API_KEY", "HEYGEN_API_KEY"}}

\* Every lip-sync call in every world; the request holds the text to speak
\* and the world the calls meet.
InitLipSync ==
    /\ ModuleInit
    /\ environ \in LipSyncEnvirons
    /\ installed = {}
    /\ handles = {}
    /\ fault = "none"
    /\ \E world \in Worlds : request = [text |-> <<104, 105>>, world |-> world]

GenerateLocal == generate_lip_sync_video_call(request.world)

CreateVideo ==
    \E use_api \in BOOLEAN :
        \E api_provider \in {"d-id", "heygen", "synthesia", "elai"} :
            \E api_key \in {None, <<>>, EnvValue(1)} :
                create_lip_sync_video_call(use_api, api_provider, api_key,
                                           request.world)

SpeakWithLipSync ==
    \E enable_lip_sync \in BOOLEAN :
        text_to_speech_call(request.text, enable_lip_sync, request.world)

NextLipSync == GenerateLocal \/ CreateVideo \/ SpeakWithLipSync

SpecLipSync == InitLipSync /\ [][NextLipSync]_vars

(***************************************************************************)
(* initialize_offline_resources in a multi-threaded host                   *)
(***************************************************************************)

\* The threads of the host that may call the probe at the same time
Threads == {1, 2}

\* The invocation of thread t stands at the given line.
At(t, pc) == t \in DOMAIN running /\ running[t].pc = pc

\* The invocations in flight after that of thread t moved on.
Moved(t, invocation) ==
    [u \in DOMAIN running \cup {t} |->
        IF u = t THEN invocation ELSE running[u]]

\* The steps below change the invocations, the flags and handles, and what
\* each names; these stay as they are in all of them.
probe_frame == UNCHANGED <<environ, installed, handles, fault, request, engine_called>>

\* Line 54: a thread enters with summary = all false.
probe_enter(t) ==
    /\ t \notin DOMAIN running
    /\ running' = Moved(t, [pc |-> "cached", trace |-> <<>>,
                            summary |-> Summary(FALSE, FALSE, FALSE),
                            loaded |-> FALSE, initialised |-> FALSE])
    /\ UNCHANGED <<flagVars, offline_capabilities, last, probed_ok>>
    /\ probe_frame

\* Lines 57-58: the test of the three flags.
probe_cached(t) ==
    /\ At(t, "cached")
    /\ running' = Moved(t,
           IF vosk_available /\ pyttsx3_available /\ argos_available
           THEN [running[t] EXCEPT !.pc = "publish",
                                   !.summary = Summary(TRUE, TRUE, TRUE)]
           ELSE [running[t] EXCEPT !.pc = "vosk"])
    /\ UNCHANGED <<flagVars, offline_capabilities, last, probed_ok>>
    /\ probe_frame

\* Lines 63 and 89-90: if not _vosk_available ... else summary["vosk"] = True
probe_vosk_check(t) ==
    /\ At(t, "vosk")
    /\ running' = Moved(t,
           IF ~vosk_available
           THEN [running[t] EXCEPT !.pc = "vosk_load"]
           ELSE [running[t] EXCEPT !.pc = "tts", !.summary.vosk = TRUE])
    /\ UNCHANGED <<flagVars, offline_capabilities, last, probed_ok>>
    /\ probe_frame

\* Lines 64-81 and 84-88: the import, the search for model_path and
\* _vosk_model = Model(model_path); outcome is "no_model" (nothing to load, or
\* the import raised), "raised" (Model raised) or "loaded".
probe_vosk_load(t, outcome) ==
    /\ At(t, "vosk_load")
    /\ running' = Moved(t,
           [running[t] EXCEPT
               !.pc = IF outcome = "loaded" THEN "vosk_set" ELSE "tts",
               !.loaded = (outcome = "loaded"),
               !.trace = IF outcome = "no_model" THEN @
                         ELSE @ \o <<Ev("Model", candidates[1], "-", <<>>)>>])
    /\ vosk_model' = IF outcome = "loaded" THEN candidates[1] ELSE vosk_model
    /\ UNCHANGED <<vosk_available, pyttsx3_available, argos_available,
                   pyttsx3_engine, offline_capabilities, last, probed_ok>>
    /\ probe_frame

\* Lines 82-83: _vosk_available = True; summary["vosk"] = True
probe_vosk_set(t) ==
    /\ At(t, "vosk_set")
    /\ running' = Moved(t, [running[t] EXCEPT !.pc = "tts",
                                              !.summary.vosk = TRUE])
    /\ vosk_available' = TRUE
    /\ probed_ok' = probed_ok \cup {"vosk"}
    /\ UNCHANGED <<pyttsx3_available, argos_available, vosk_model,
                   pyttsx3_engine, offline_capabilities, last>>
    /\ probe_frame

\* Lines 93 and 102-103: if not _pyttsx3_available ... else
probe_tts_check(t) ==
    /\ At(t, "tts")
    /\ running' = Moved(t,
           IF ~pyttsx3_available
           THEN [running[t] EXCEPT !.pc = "tts_init"]
           ELSE [running[t] EXCEPT !.pc = "argos", !.summary.pyttsx3 = TRUE])
    /\ UNCHANGED <<flagVars, offline_capabilities, last, probed_ok>>
    /\ probe_frame

\* Lines 94-96 and 99-101: _pyttsx3_engine = pyttsx3.init(), or the exception
probe_tts_init(t, tts_ok) ==
    /\ At(t, "tts_init")
    /\ running' = Moved(t,
           [running[t] EXCEPT
               !.pc = IF tts_ok THEN "tts_set" ELSE "argos",
               !.initialised = tts_ok,
               !.trace = @ \o <<Ev("pyttsx3.init", "-", "-", <<>>)>>])
    /\ pyttsx3_engine' = IF tts_ok THEN "Engine" ELSE pyttsx3_engine
    /\ UNCHANGED <<vosk_available, pyttsx3_available, argos_available,
                   vosk_model, offline_capabilities, last, probed_ok>>
    /\ probe_frame

\* Lines 97-98: _pyttsx3_available = True; summary["pyttsx3"] = True
probe_tts_set(t) ==
    /\ At(t, "tts_set")
    /\ running' = Moved(t, [running[t] EXCEPT !.pc = "argos",
                                              !.summary.pyttsx3 = TRUE])
    /\ pyttsx3_available' = TRUE
    /\ probed_ok' = probed_ok \cup {"pyttsx3"}
    /\ UNCHANGED <<vosk_available, argos_available, vosk_model,
                   pyttsx3_engine, offline_capabilities, last>>
    /\ probe_frame

\* Lines 106 and 120-121: if not _argos_available ... else
probe_argos_check(t) ==
    /\ At(t, "argos")
    /\ running' = Moved(t,
           IF ~argos_available
           THEN [running[t] EXCEPT !.pc = "argos_query"]
           ELSE [running[t] EXCEPT !.pc = "publish", !.summary.argos = TRUE])
    /\ UNCHANGED <<flagVars, offline_capabilities, last, probed_ok>>
    /\ probe_frame

\* Lines 107-112 and 115-119: the installed-language query and its test
probe_argos_query(t, argos_ok) ==
    /\ At(t, "argos_query")
    /\ running' = Moved(t,
           [running[t] EXCEPT
               !.pc = IF argos_ok /\ Cardinality(installed) > 0
                      THEN "argos_set" ELSE "publish",
               !.trace = IF argos_ok
                         THEN @ \o <<Ev("get_installed_languages", "-", "-",
                                        <<>>)>>
                         ELSE @])
    /\ UNCHANGED <<flagVars, offline_capabilities, last, probed_ok>>
    /\ probe_frame

\* Lines 113-114: _argos_available = True; summary["argos"] = True
probe_argos_set(t) ==
    /\ At(t, "argos_set")
    /\ running' = Moved(t, [running[t] EXCEPT !.pc = "publish",
                                              !.summary.argos = TRUE])
    /\ argos_available' = TRUE
    /\ probed_ok' = probed_ok \cup {"argos"}
    /\ UNCHANGED <<vosk_available, pyttsx3_available, vosk_model,
                   pyttsx3_engine, offline_capabilities, last>>
    /\ probe_frame

\* Lines 59-60 and 123-125: the summary is published and returned.
probe_publish(t) ==
    /\ At(t, "publish")
    /\ running' = Moved(t, [running[t] EXCEPT !.pc = "returned"])
    /\ offline_capabilities' = <<running[t].summary>>
    /\ last' = [op |-> "initialize_offline_resources",
                out |-> [result |-> running[t].summary,
                         trace |-> running[t].trace]]
    /\ UNCHANGED <<flagVars, probed_ok>>
    /\ probe_frame

\* Two threads of the host call the probe, their lines interleaved in every
\* order, with every outcome of the three libraries.
InitThreads ==
    /\ ModuleInit
    /\ environ = NoEnviron
    /\ installed = {"en"}
    /\ handles = {}
    /\ fault = "none"
    /\ request = NoRequest

NextThreads ==
    \E t \in Threads :
        \/ probe_enter(t)
        \/ probe_cached(t)
        \/ probe_vosk_check(t)
        \/ \E outcome \in {"no_model", "raised", "loaded"} :
               probe_vosk_load(t, outcome)
        \/ probe_vosk_set(t)
        \/ probe_tts_check(t)
        \/ \E tts_ok \in BOOLEAN : probe_tts_init(t, tts_ok)
        \/ probe_tts_set(t)
        \/ probe_argos_check(t)
        \/ \E argos_ok \in BOOLEAN : probe_argos_query(t, argos_ok)
        \/ probe_argos_set(t)
        \/ probe_publish(t)

SpecThreads == InitThreads /\ [][NextThreads]_vars

(***************************************************************************)
(* The remote providers that poll (video_api_alternatives.py)              *)
(***************************************************************************)

\* The providers whose function submits a job and then polls its status
PollingProviders == {"d-id", "synthesia", "elai"}

\* range(60): the status requests one call makes at most
PollLimit == 60

\* The status code of the submit response that starts the polling: 201 for
\* D-ID (line 66), 200 for Synthesia (132) and Elai (182).
SubmitAccepted(provider) == IF provider = "d-id" THEN 201 ELSE 200

\* The status value a provider's loop takes for completion (79, 143, 193).
CompletionStatus(provider) ==
    CASE provider = "d-id" -> "done"
      [] provider = "synthesia" -> "complete"
      [] provider = "elai" -> "completed"

\* The status values a provider's loop returns None on: "error" for D-ID
\* (88-91), none for Synthesia and Elai.
FailureStatuses(provider) == IF provider = "d-id" THEN {"error"} ELSE {}

\* What one pass of the loop meets: the status request raises or answers
\* with a code; a 200 answer carries a status and, possibly, the video's url;
\* the download answers with a code.
StatusResponses(provider) ==
    [raised : BOOLEAN,
     status_code : {200, 500},
     status : {"pending", CompletionStatus(provider), "error"},
     url : BOOLEAN,
     download_code : {200, 404}]

\* The call in flight, or none
Job == IF running = <<>> THEN [pc |-> "none"] ELSE running[1]

\* The function is entered and the job submitted: D-ID returns None before
\* any request when text_content is missing (33-35); a submit response with
\* another code than the accepted one returns None (92-94, 151-153, 201-203);
\* otherwise the loop is entered.
generate_submit(provider, text_content, status_code) ==
    /\ Job.pc \in {"none", "returned"}
    /\ LET submitted == ~(provider = "d-id"
                           /\ (text_content = None \/ text_content = <<>>))
           accepted  == submitted /\ status_code = SubmitAccepted(provider)
       IN  running' = <<[provider |-> provider,
                         pc |-> IF accepted THEN "poll" ELSE "returned",
                         submitted |-> submitted,
                         polls |-> 0,
                         first_terminal |-> 0,
                         completed_at |-> 0,
                         downloads |-> 0,
                         written |-> FALSE,
                         result |-> None]>>
    /\ UNCHANGED <<environ, installed, handles, fault, request, flagVars,
                   offline_capabilities, last, engine_called, probed_ok>>

\* One pass of `for _ in range(60)`: sleep, request the status, and on a 200
\* answer act on the status. Completion with a url downloads, and a 200
\* download writes the file and returns its path; D-ID returns None on
\* "error"; an exception returns None; every other answer goes to the next
\* pass, and after the last pass the function ends without a return value.
generate_poll(response) ==
    /\ Job.pc = "poll"
    /\ Job.polls < PollLimit
    /\ LET provider  == Job.provider
           polls     == Job.polls + 1
           answered  == ~response.raised /\ response.status_code = 200
           complete  == answered
                        /\ response.status = CompletionStatus(provider)
           terminal  == answered
                        /\ response.status \in
                               {CompletionStatus(provider), "error"}
           download  == complete /\ response.url
           saved     == download /\ response.download_code = 200
           failed    == answered
                        /\ response.status \in FailureStatuses(provider)
           returns   == response.raised \/ saved \/ failed
                        \/ polls = PollLimit
       IN  running' = <<[Job EXCEPT
               !.pc = IF returns THEN "returned" ELSE "poll",
               !.polls = polls,
               !.first_terminal =
                   IF Job.first_terminal = 0 /\ terminal THEN polls ELSE @,
               !.completed_at =
                   IF Job.completed_at = 0 /\ complete THEN polls ELSE @,
               !.downloads = IF download THEN 1 ELSE 0,
               !.written = saved,
               !.result = IF saved THEN LipSyncOutput ELSE None]>>
    /\ UNCHANGED <<environ, installed, handles, fault, request, flagVars,
                   offline_capabilities, last, engine_called, probed_ok>>

\* One call at a time, of each polling provider, with every answer of the
\* service.
InitPoll ==
    /\ ModuleInit
    /\ environ = NoEnviron
    /\ installed = {}
    /\ handles = {}
    /\ fault = "none"
    /\ request = NoRequest

Submit ==
    \E provider \in PollingProviders :
        \E text_content \in {None, <<104, 105>>} :
            \E status_code \in {200, 201, 401} :
                generate_submit(provider, text_content, status_code)

Poll ==
    /\ Job.pc = "poll"
    /\ \E response \in StatusResponses(Job.provider) : generate_poll(response)

NextPoll == Submit \/ Poll

SpecPoll == InitPoll /\ [][NextPoll]_vars

(***************************************************************************)
(* Properties                                                              *)
(***************************************************************************)

\* The outcome of the last call, when it was an offline_translate call.
Translated == last.op = "offline_translate"

\* The call went past the availability gate and the installed-language query
\* answered.
Routed ==
    /\ Translated
    /\ last.out.report # "engine_unavailable"
    /\ last.out.raised # "get_installed_languages"

\* The source code of the last call after the resolution of "auto", computed
\* from the call's arguments.
ResolvedSource ==
    IF last.src_lang = "auto"
    THEN detect_language_offline(last.text, installed)
    ELSE last.src_lang

\* The handle lookups and the translate calls of a trace.
Lookups(trace) == SelectSeq(trace, LAMBDA e : e.ev = "get_translation")

Translations(trace) == SelectSeq(trace, LAMBDA e : e.ev = "translate")

\* The pivot route was attempted: a hop handle was looked up after the direct
\* lookup.
PivotAttempted == Routed /\ Len(Lookups(last.out.trace)) > 1

ProviderNames == <<"d-id", "heygen", "synthesia", "elai">>

KeyOf(k) == Getenv(environ, EnvNames[k])

AvatarOf(k) == Getenv(environ, EnvNames[k + Len(ProviderNames)])

\* C1: provider selection picks the first provider in the order D-ID, HeyGen,
\* Synthesia, Elai whose key is non-empty, with that provider's key and that
\* provider's avatar id; with all four keys empty it selects no provider
\* (use_api false, api_key None).
C1_ProviderPriority ==
    last.op = "text_to_speech" =>
        /\ \A k \in 1..Len(ProviderNames) :
               (KeyOf(k) # <<>> /\ \A j \in 1..(k - 1) : KeyOf(j) = <<>>) =>
                   /\ last.out.use_api
                   /\ last.out.api_provider = ProviderNames[k]
                   /\ last.out.api_key = KeyOf(k)
                   /\ last.out.avatar_id = AvatarOf(k)
        /\ (\A k \in 1..Len(ProviderNames) : KeyOf(k) = <<>>) =>
               /\ ~last.out.use_api
               /\ last.out.api_key = None

\* C1 witness: HeyGen and Synthesia keys set, the D-ID key set but empty:
\* HeyGen is selected with its own key and avatar id.
C1_Witness ==
    /\ last.op = "text_to_speech"
    /\ "DID_API_KEY" \in DOMAIN environ
    /\ KeyOf(1) = <<>>
    /\ KeyOf(2) # <<>>
    /\ KeyOf(3) # <<>>
    /\ AvatarOf(2) # <<>>
    /\ last.out.api_provider = "heygen"
    /\ last.out.api_key = KeyOf(2)
    /\ last.out.avatar_id = AvatarOf(2)

\* C2: when src and tgt are both installed and a direct src->tgt handle
\* exists, offline_translate returns postprocess(segmented translation by the
\* direct handle of preprocess(text), tgt) and neither looks up nor invokes a
\* pivot hop.  (Stated of the calls in which the engine is available and the
\* library calls of the direct route return.)
C2_DirectRoute ==
    (/\ Routed
     /\ last.out.raised = "none"
     /\ ResolvedSource \in installed
     /\ last.tgt_lang \in installed
     /\ <<ResolvedSource, last.tgt_lang>> \in handles) =>
        LET direct == <<ResolvedSource, last.tgt_lang>>
        IN  /\ last.out.result =
                   postprocess_translation(
                       translate_with_sentence_splitting(
                           preprocess_text_for_translation(last.text), direct),
                       last.tgt_lang)
            /\ Len(Lookups(last.out.trace)) = 1
            /\ \A i \in DOMAIN last.out.trace :
                   last.out.trace[i].ev \in {"get_translation", "translate"} =>
                       <<last.out.trace[i].from, last.out.trace[i].to>> = direct

\* C2 witness: a long text of two sentences translated hi->bn by the direct
\* handle, segment by segment, while both pivot handles exist as well.
C2_Witness ==
    /\ Translated
    /\ last.out.route = "direct"
    /\ last.src_lang = "hi"
    /\ last.tgt_lang = "bn"
    /\ {<<"hi", "en">>, <<"en", "bn">>} \subseteq handles
    /\ Len(Translations(last.out.trace)) = 2
    /\ last.out.result # None

\* C3: when src, tgt and en are all installed, src and tgt differ from en and
\* from each other, no direct handle exists and both hop handles exist,
\* offline_translate returns postprocess(segmented(en->tgt, segmented(src->en,
\* preprocess(text))), tgt).  (Stated of the calls in which the engine is
\* available and the library calls return.)
C3_PivotComposition ==
    (/\ Routed
     /\ last.out.raised = "none"
     /\ {ResolvedSource, last.tgt_lang, pivot_code} \subseteq installed
     /\ ResolvedSource # pivot_code
     /\ last.tgt_lang # pivot_code
     /\ ResolvedSource # last.tgt_lang
     /\ <<ResolvedSource, last.tgt_lang>> \notin handles
     /\ <<ResolvedSource, pivot_code>> \in handles
     /\ <<pivot_code, last.tgt_lang>> \in handles) =>
        last.out.result =
            postprocess_translation(
                translate_with_sentence_splitting(
                    translate_with_sentence_splitting(
                        preprocess_text_for_translation(last.text),
                        <<ResolvedSource, pivot_code>>),
                    <<pivot_code, last.tgt_lang>>),
                last.tgt_lang)

\* C3 witness: a Devanagari text with src = auto, resolved to hi, translated
\* to bn over hi->en and en->bn.
C3_Witness ==
    /\ Translated
    /\ last.out.route = "pivot"
    /\ last.src_lang = "auto"
    /\ last.out.src = "hi"
    /\ last.tgt_lang = "bn"
    /\ Len(Translations(last.out.trace)) = 2
    /\ last.out.result # None

\* C4: the pivot route is attempted only when en is installed and differs
\* from both src and tgt; when src = en or tgt = en no pivot hop handle is
\* looked up and no pivot hop is translated.
C4_PivotOnlyWhenDistinct ==
    PivotAttempted =>
        /\ pivot_code \in installed
        /\ ResolvedSource # pivot_code
        /\ last.tgt_lang # pivot_code

\* C5: offline_translate reports a missing pack, naming exactly those of src
\* and tgt (src first) that are not installed, if and only if one of them is
\* not installed; it reports no path if and only if both are installed and
\* neither route produced a result; both return None.  (Stated of the calls in
\* which the engine is available and no exception reaches the handler of
\* offline_translate.)
C5_Guidance ==
    (Routed /\ last.out.report # "translation_error") =>
        LET absent == {c \in {ResolvedSource, last.tgt_lang} : c \notin installed}
        IN  /\ last.out.report = "missing_pack" <=> absent # {}
            /\ last.out.report = "missing_pack" =>
                   last.out.missing =
                       (IF ResolvedSource \notin installed
                        THEN <<ResolvedSource>> ELSE <<>>)
                       \o (IF last.tgt_lang \notin installed
                           THEN <<last.tgt_lang>> ELSE <<>>)
            /\ last.out.report = "no_path" <=>
                   (absent = {} /\ last.out.result = None)
            /\ last.out.report \in {"missing_pack", "no_path"} =>
                   last.out.result = None

\* C5 witness: hi -> bn with neither installed: both are named, source first.
C5_Witness ==
    /\ Translated
    /\ last.out.report = "missing_pack"
    /\ last.out.missing = <<"hi", "bn">>
    /\ installed = {"en"}
    /\ last.out.result = None

\* C6: in a pivot attempt, if the src->en handle or the en->tgt handle is
\* unavailable, offline_translate returns None: never the first hop's
\* intermediate text nor any other partial translation.
C6_PivotAbort ==
    (/\ PivotAttempted
     /\ \/ <<ResolvedSource, pivot_code>> \notin handles
        \/ <<pivot_code, last.tgt_lang>> \notin handles) =>
        /\ last.out.result = None
        /\ last.out.route = "none"

\* C6 witness: the first hop was translated, the second handle is missing,
\* and the call returned None.
C6_Witness ==
    /\ PivotAttempted
    /\ <<ResolvedSource, pivot_code>> \in handles
    /\ <<pivot_code, last.tgt_lang>> \notin handles
    /\ Len(Translations(last.out.trace)) > 0
    /\ last.out.raised = "none"
    /\ last.out.result = None

\* The library calls whose exception reaches the except clause of
\* offline_translate (those of the pivot hops end in _translate_via_pivot).
OuterFaults ==
    {"get_installed_languages", "direct.get_translation", "direct.translate"}

FlagOf(op) ==
    CASE op = "offline_stt"       -> vosk_available
      [] op = "offline_tts"       -> pyttsx3_available
      [] op = "offline_translate" -> argos_available

\* A call of a gated operation made while its flag is false returns None with
\* the warning and makes no engine call.
GatedStep ==
    (/\ last'.op \in {"offline_stt", "offline_tts", "offline_translate"}
     /\ ~FlagOf(last'.op)) =>
        /\ last'.out.result = None
        /\ last'.out.report = "engine_unavailable"
        /\ last'.out.trace = <<>>
        /\ engine_called' = engine_called

\* C8: in any sequence of the four calls, while the availability flag of a
\* capability is false the operation returns None with a warning and makes no
\* call to that engine; hence no engine call precedes a probe that found that
\* engine available.
C8_AvailabilityGate ==
    [][GatedStep]_vars /\ [](engine_called \subseteq probed_ok)

\* C8 witness: after a probe found only the translation engine and a
\* translation called it, a synthesis call is turned away at its gate.
C8_Witness ==
    /\ last.op = "offline_tts"
    /\ ~pyttsx3_available
    /\ last.out.report = "engine_unavailable"
    /\ engine_called = {"argos"}
    /\ probed_ok = {"argos"}

\* C9: when src = auto, offline_translate resolves src with the detector
\* applied to the raw text and then preprocesses; auto is never the source of
\* a handle lookup and is never named as the missing source pack.
C9_AutoResolvedFirst ==
    (Routed /\ last.src_lang = "auto") =>
        /\ Len(last.out.trace) >= 3
        /\ last.out.trace[2] = Ev("detect", "-", "-", last.text)
        /\ last.out.trace[3] = Ev("preprocess", "-", "-", last.text)
        /\ last.out.src = detect_language_offline(last.text, installed)
        /\ \A i \in DOMAIN last.out.trace : last.out.trace[i].from # "auto"
        /\ \A i \in DOMAIN last.out.missing : last.out.missing[i] # "auto"

\* C9 witness: nine spaces before one Devanagari letter, hi installed: the
\* raw text resolves to en, the preprocessed text would resolve to hi.
C9_Witness ==
    /\ Routed
    /\ last.src_lang = "auto"
    /\ "hi" \in installed
    /\ last.out.src = "en"
    /\ detect_language_offline(preprocess_text_for_translation(last.text),
                               installed) = "hi"

\* A non-empty text of Devanagari characters only (U+0900..U+097F).
PureDevanagari(text) ==
    text # <<>> /\ \A i \in DOMAIN text : 2304 <= text[i] /\ text[i] <= 2431

\* C10: for every non-empty text of Devanagari characters only and every
\* installed set, _detect_language_offline returns hi when hi is installed
\* and en otherwise.
C10_PureDevanagari ==
    (last.op = "_detect_language_offline" /\ PureDevanagari(request.text)) =>
        last.out = IF "hi" \in installed THEN "hi" ELSE "en"

\* C10 witness: a danda and a letter, with bn and ur installed but not hi:
\* the answer is en.
C10_Witness ==
    /\ last.op = "_detect_language_offline"
    /\ request.text = <<2404, 2309>>
    /\ installed = {"bn", "ur"}
    /\ last.out = "en"

\* The codes the detector may answer with.
LanguageCodes == {"en", "hi", "bn", "ur", "ar"}

Detected == last.op = "_detect_language_offline"

\* A non-empty text of ASCII letters only.
AsciiLetters(text) ==
    \A i \in DOMAIN text :
        (65 <= text[i] /\ text[i] <= 90) \/ (97 <= text[i] /\ text[i] <= 122)

\* C11: for every text of ASCII letters only and every installed set (also
\* sets with hi, bn or ur, and sets without en), _detect_language_offline
\* returns en.
C11_AsciiLetters ==
    (Detected /\ AsciiLetters(request.text)) => last.out = "en"

\* C11 witness: the letters a and Z with hi, bn and ur installed and en not.
C11_Witness ==
    /\ Detected
    /\ request.text = <<97, 90>>
    /\ installed = {"hi", "bn", "ur"}
    /\ last.out = "en"

\* C12: _detect_language_offline never fails: the empty text gives en for
\* every installed set, with no division performed, and every other text
\* gives some language code.
C12_DetectorTotal ==
    Detected =>
        /\ last.out \in LanguageCodes
        /\ request.text = <<>> => last.out = "en"

\* C12 witness: the empty text with all five languages installed gives en.
C12_Witness ==
    /\ Detected
    /\ request.text = <<>>
    /\ installed = LanguageCodes
    /\ last.out = "en"

\* The number of characters of text between lo and hi.
InRange(text, lo, hi) ==
    Len(SelectSeq(text, LAMBDA c : lo <= c /\ c <= hi))

\* More than num/den of the characters of text lie between lo and hi.
Dominant(text, lo, hi, num, den) ==
    den * InRange(text, lo, hi) > num * Len(text)

\* The first code of codes that is installed, else en.
Preferred(codes) ==
    IF \E i \in DOMAIN codes : codes[i] \in installed
    THEN codes[CHOOSE i \in DOMAIN codes :
                   /\ codes[i] \in installed
                   /\ \A j \in 1..(i - 1) : codes[j] \notin installed]
    ELSE "en"

\* C13: for every non-empty text the rules apply in the order Devanagari
\* (> 0.3), Bengali (> 0.3), Arabic (> 0.3), ASCII (> 0.85), fallback, the
\* first matching rule deciding: Devanagari gives hi if installed else en,
\* also when the Bengali share exceeds 0.3 too; Bengali gives bn if installed
\* else en; Arabic gives ur, else ar, else en; ASCII gives en; with no rule
\* matching the answer is the first of hi, bn, ur that is installed, else en.
C13_RuleOrder ==
    (Detected /\ request.text # <<>>) =>
        LET text == request.text
            deva == Dominant(text, 2304, 2431, 3, 10)
            beng == Dominant(text, 2432, 2559, 3, 10)
            arab == Dominant(text, 1536, 1791, 3, 10)
            asci == Dominant(text, 0, 127, 85, 100)
        IN  /\ deva => last.out = Preferred(<<"hi">>)
            /\ (~deva /\ beng) => last.out = Preferred(<<"bn">>)
            /\ (~deva /\ ~beng /\ arab) => last.out = Preferred(<<"ur", "ar">>)
            /\ (~deva /\ ~beng /\ ~arab /\ asci) => last.out = "en"
            /\ (~deva /\ ~beng /\ ~arab /\ ~asci) =>
                   last.out = Preferred(<<"hi", "bn", "ur">>)

\* C13 witness: Devanagari and Bengali both at 2/5 with hi and bn installed:
\* the Devanagari rule decides.
C13_Witness ==
    /\ Detected
    /\ request.text = <<2453, 2453, 2309, 2309, 97>>
    /\ {"hi", "bn"} \subseteq installed
    /\ last.out = "hi"

Preprocessed == last.op = "_preprocess_text_for_translation"

\* C14: _preprocess_text_for_translation is idempotent: a call on the output
\* of a call returns its argument, also for texts with consecutive marks,
\* trailing marks, URLs and e-mail addresses.
C14_PreprocessIdempotent ==
    [][(/\ Preprocessed
        /\ last'.op = "_preprocess_text_for_translation"
        /\ last'.text = last.out) => last'.out = last'.text]_vars

\* C14 witness: 'a..' gave 'a. . ', and the call on 'a. . ' gave it back.
C14_Witness ==
    /\ Preprocessed
    /\ request.text = <<97, 46, 46>>
    /\ last.text = <<97, 46, 32, 46, 32>>
    /\ last.out = last.text

\* No two whitespace characters of the text are adjacent.
NoWhitespaceRun(text) ==
    \A i \in 1..(Len(text) - 1) :
        ~(text[i] \in WhitespaceChars /\ text[i + 1] \in WhitespaceChars)

\* C15 (as claimed): the output of _preprocess_text_for_translation has no
\* leading and no trailing whitespace and no run of two or more whitespace
\* characters.
C15_Trimmed ==
    Preprocessed =>
        /\ last.out # <<>> =>
               /\ last.out[1] \notin WhitespaceChars
               /\ last.out[Len(last.out)] \notin WhitespaceChars
        /\ NoWhitespaceRun(last.out)

\* C15 (amended): the output has no leading whitespace and no run of two or
\* more whitespace characters; it ends with whitespace exactly when the text
\* before the spacing of the marks ended with a mark, and then it ends with
\* that mark and one space.
C15_TrimmedButForFinalMark ==
    Preprocessed =>
        LET out == last.out
            n   == Len(out)
        IN  /\ out # <<>> => out[1] \notin WhitespaceChars
            /\ NoWhitespaceRun(out)
            /\ (out # <<>> /\ out[n] \in WhitespaceChars) =>
                   (n >= 2 /\ out[n] = 32 /\ out[n - 1] \in PunctChars)
            /\ (out # <<>> /\ out[n] \notin WhitespaceChars) =>
                   out[n] \notin PunctChars

\* C15 witness: 'a.' gives 'a. ', which ends with a space.
C15_Witness ==
    /\ Preprocessed
    /\ last.text = <<97, 46>>
    /\ last.out = <<97, 46, 32>>

\* C16 (as claimed): in the output no whitespace character immediately
\* precedes a mark . , ! ? ; : and every mark is followed by exactly one
\* space, also when marks are adjacent in the input.
C16_MarkSpacing ==
    Preprocessed =>
        \A i \in DOMAIN last.out :
            last.out[i] \in PunctChars =>
                /\ i > 1 => last.out[i - 1] \notin WhitespaceChars
                /\ i < Len(last.out) /\ last.out[i + 1] = 32
                /\ i + 2 <= Len(last.out) =>
                       last.out[i + 2] \notin WhitespaceChars

\* C16 (amended): every mark of the output is followed by exactly one space,
\* and a whitespace character precedes a mark only as the one space that
\* follows the mark before it.
C16_MarkSpacingAfter ==
    Preprocessed =>
        \A i \in DOMAIN last.out :
            last.out[i] \in PunctChars =>
                /\ i < Len(last.out) /\ last.out[i + 1] = 32
                /\ i + 2 <= Len(last.out) =>
                       last.out[i + 2] \notin WhitespaceChars
                /\ (i > 1 /\ last.out[i - 1] \in WhitespaceChars) =>
                       (i > 2 /\ last.out[i - 2] \in PunctChars)

\* C16 witness: ', .' gives ', . ': the space the text had before the full
\* stop is removed, and the one space after the comma stands before it.
C16_Witness ==
    /\ Preprocessed
    /\ last.text = <<44, 32, 46>>
    /\ last.out = <<44, 32, 46, 32>>

\* The text of the last _postprocess_translation call after the repairs of
\* its spacing (lines 364-368), before any change of case.
RepairedSpacing ==
    Strip(CollapseWhitespace(
        OneSpaceAfterPunct(RemoveSpaceBeforePunct(last.text))))

\* C17: _postprocess_translation changes case only when target_lang = en and
\* the repaired text is non-empty; it then upper-cases the first character
\* and leaves every other character as it was; for any other target the
\* first character is as the engine produced it.
C17_CapitalizeEnglishOnly ==
    last.op = "_postprocess_translation" =>
        LET n == RepairedSpacing
            k == Len(last.out) - Len(n)
        IN  IF last.target_lang = "en" /\ n # <<>>
            THEN /\ k >= 0
                 /\ SubSeq(last.out, 1, k + 1) = UpperChar(n[1])
                 /\ SubSeq(last.out, k + 2, Len(last.out)) = Tail(n)
            ELSE last.out = n

\* C17 witness: 'a,a' for target en gives 'A, a'.
C17_Witness ==
    /\ last.op = "_postprocess_translation"
    /\ last.target_lang = "en"
    /\ last.text = <<97, 44, 97>>
    /\ last.out = <<65, 44, 32, 97>>

Segmented == last.op = "_translate_with_sentence_splitting"

\* C18: for a text shorter than 100 characters, whatever terminators it has,
\* the engine is called exactly once, with the whole text, and the result of
\* that call is returned unchanged.
C18_ShortTextOneUnit ==
    (Segmented /\ Len(last.text) < 100) =>
        /\ last.calls = <<last.text>>
        /\ last.out = EngineTranslate(last.translation_obj, last.text)

\* C18 witness: a text of 99 characters, 'a...a. a', that has two sentences.
C18_Witness ==
    /\ Segmented
    /\ Len(last.text) = 99
    /\ Len(SplitSentences(last.text)) = 2
    /\ last.text[Len(last.text)] = 97
    /\ last.calls = <<last.text>>

\* The parts with one space between each two.
RECURSIVE SpacedConcat(_)
SpacedConcat(parts) ==
    IF parts = <<>> THEN <<>>
    ELSE IF Len(parts) = 1 THEN parts[1]
    ELSE parts[1] \o <<32>> \o SpacedConcat(Tail(parts))

\* C19: a text of 100 or more characters with two or more segments is
\* translated one engine call per non-empty segment, in input order, and the
\* results are joined by single spaces; with one segment it is translated as
\* one unit.
C19_LongTextPerSegment ==
    (Segmented /\ Len(last.text) >= 100) =>
        LET segments == SplitSentences(last.text)
            kept     == {k \in DOMAIN segments : segments[k] # <<>>}
        IN  IF Len(segments) >= 2
            THEN /\ Len(last.calls) = Cardinality(kept)
                 /\ \A j \in DOMAIN last.calls :
                        last.calls[j] = Strip(segments[Nth(kept, j)])
                 /\ last.out =
                        SpacedConcat([j \in DOMAIN last.calls |->
                            EngineTranslate(last.translation_obj,
                                            last.calls[j])])
            ELSE /\ last.calls = <<last.text>>
                 /\ last.out = EngineTranslate(last.translation_obj, last.text)

\* C19 witness: a text of 100 characters, 'a...a. . ', of three segments, the
\* last one empty: two engine calls.
C19_Witness ==
    /\ Segmented
    /\ Len(last.text) = 100
    /\ Len(SplitSentences(last.text)) = 3
    /\ Len(last.calls) = 2
    /\ last.calls[2] = <<46>>

\* The speech sub-probe finds a model directory: VOSK_MODEL_PATH names a
\* directory, or a candidate directory holds the marker file.
ModelDirFound(c) ==
    \/ c.env_path # "" /\ c.env_path \in c.dirs
    \/ \E k \in DOMAIN candidates :
           candidates[k] \in c.dirs /\ candidates[k] \in c.marked

Probed == last.op = "initialize_offline_resources"

\* C20: initialize_offline_resources never raises and does not short-circuit:
\* whatever the three sub-probes meet (success, nothing to load, an
\* exception), the map it returns and the flags it leaves hold, for each
\* capability, the flag it had or the success of that capability's own
\* sub-probe; what another sub-probe met changes nothing.
C20_ProbesIndependent ==
    [][\A vosk_import_ok, model_load_ok, tts_ok, argos_ok \in BOOLEAN :
           \A c \in FsCases :
               initialize_offline_resources(vosk_import_ok, c.env_path, c,
                                            model_load_ok, tts_ok, argos_ok)
               => /\ Probed'
                  /\ last'.out.result.vosk =
                         (vosk_available
                          \/ (vosk_import_ok /\ ModelDirFound(c)
                              /\ model_load_ok))
                  /\ last'.out.result.pyttsx3 = (pyttsx3_available \/ tts_ok)
                  /\ last'.out.result.argos =
                         (argos_available \/ (argos_ok /\ installed # {}))
                  /\ vosk_available' = last'.out.result.vosk
                  /\ pyttsx3_available' = last'.out.result.pyttsx3
                  /\ argos_available' = last'.out.result.argos
                  /\ offline_capabilities' = <<last'.out.result>>]_vars

\* C20 witness: the first probe; loading the speech model raised, the voice
\* engine and the translation library were still probed and found.
C20_Witness ==
    /\ Probed
    /\ engine_called = {}
    /\ probed_ok = {"pyttsx3", "argos"}
    /\ last.out.result = [vosk |-> FALSE, pyttsx3 |-> TRUE, argos |-> TRUE]
    /\ Len(last.out.trace) = 3
    /\ last.out.trace[1].ev = "Model"

AllAvailable == vosk_available /\ pyttsx3_available /\ argos_available

\* C21: once a call has left all three capabilities available, every later
\* call returns and publishes the all-true map without re-checking: no model
\* load, no engine initialisation, no installed-language query, and the flags
\* and handles stay as they are.
C21_CachedWhenAllAvailable ==
    [][AllAvailable =>
           /\ Probed'
           /\ last'.out.result = [vosk |-> TRUE, pyttsx3 |-> TRUE,
                                  argos |-> TRUE]
           /\ last'.out.trace = <<>>
           /\ offline_capabilities' = <<last'.out.result>>
           /\ UNCHANGED flagVars]_vars

\* C21 witness: a call that found all three capabilities already available
\* (all three true, none of them probed by this call).
C21_Witness ==
    /\ Probed
    /\ AllAvailable
    /\ last.out.trace = <<>>
    /\ offline_capabilities = <<[vosk |-> TRUE, pyttsx3 |-> TRUE,
                                 argos |-> TRUE]>>

\* The places the speech sub-probe looks at, in its order: VOSK_MODEL_PATH,
\* then the candidate list.
SearchOrder(c) == <<c.env_path>> \o candidates

\* The places of the search order that exist and hold the marker file.
MarkedPlaces(c) ==
    {k \in DOMAIN SearchOrder(c) :
        /\ SearchOrder(c)[k] # ""
        /\ SearchOrder(c)[k] \in c.dirs
        /\ SearchOrder(c)[k] \in c.marked}

\* C22: whenever the speech sub-probe loads a model, it loads it from the
\* first directory of the search order that exists and holds the marker file
\* conf; a directory without the marker file is never accepted.
C22_FirstMarkedDirectory ==
    [][\A vosk_import_ok, model_load_ok, tts_ok, argos_ok \in BOOLEAN :
           \A c \in FsCases :
               (/\ initialize_offline_resources(vosk_import_ok, c.env_path, c,
                                                model_load_ok, tts_ok,
                                                argos_ok)
                /\ last'.out.trace # <<>>
                /\ last'.out.trace[1].ev = "Model")
               => /\ MarkedPlaces(c) # {}
                  /\ last'.out.trace[1].from =
                         SearchOrder(c)[Min(MarkedPlaces(c))]]_vars

\* The library calls of the last call that have the given name.
ProbeEvents(call, name) ==
    {k \in DOMAIN call.out.trace : call.out.trace[k].ev = name}

\* C28: across any sequence of initialize_offline_resources calls, a flag
\* that is true stays true and its sub-probe is not run again; a true speech
\* flag has a loaded model, a true voice flag has a loaded engine; and every
\* entry of the map a call returns is the flag after that call.
C28_FlagsMonotone ==
    /\ [](/\ vosk_available => vosk_model # NoHandle
          /\ pyttsx3_available => pyttsx3_engine # NoHandle
          /\ Probed =>
                 last.out.result = [vosk |-> vosk_available,
                                    pyttsx3 |-> pyttsx3_available,
                                    argos |-> argos_available])
    /\ [][/\ vosk_available =>
                 (vosk_available' /\ ProbeEvents(last', "Model") = {})
          /\ pyttsx3_available =>
                 (pyttsx3_available'
                  /\ ProbeEvents(last', "pyttsx3.init") = {})
          /\ argos_available =>
                 (argos_available'
                  /\ ProbeEvents(last', "get_installed_languages") = {})]_vars

\* C28 witness: a later call; the voice engine was found by an earlier call
\* and is reported true, while this call probed the speech model and the
\* translation library and found neither.
C28_Witness ==
    /\ Probed
    /\ probed_ok = {"pyttsx3"}
    /\ last.out.result = [vosk |-> FALSE, pyttsx3 |-> TRUE, argos |-> FALSE]
    /\ ProbeEvents(last, "pyttsx3.init") = {}
    /\ ProbeEvents(last, "Model") # {}
    /\ pyttsx3_engine # NoHandle

\* C29: for every text and every installed set, _detect_language_offline
\* returns en or a code of the installed set, and never auto; it returns en
\* also when en is not installed.
C29_InstalledOrEnglish ==
    Detected =>
        /\ last.out \in {"en"} \cup installed
        /\ last.out # "auto"

\* C29 witness: a Devanagari letter with only bn installed: hi is not
\* installed, and the answer is en, which is not installed either.
C29_Witness ==
    /\ Detected
    /\ installed = {"bn"}
    /\ request.text = <<2309>>
    /\ last.out = "en"

\* The faults that fire inside _translate_via_pivot.
HopFaults ==
    {"hop1.get_translation", "hop1.translate",
     "hop2.get_translation", "hop2.translate"}

\* The steps of the last call from the first hop's handle lookup on (the
\* lookup that follows the direct lookup).
PivotSteps ==
    LET trace == last.out.trace
        first == CHOOSE i \in DOMAIN trace :
                     /\ trace[i].ev = "get_translation"
                     /\ Cardinality({j \in 1..i :
                                        trace[j].ev = "get_translation"}) = 2
    IN  SubSeq(trace, first, Len(trace))

\* C30: in a pivot attempt the first hop is translated in full before the
\* second hop's handle is looked up: with the src->en handle present and the
\* en->tgt handle absent the src->en engine is invoked once per segment and
\* its result is dropped; with the src->en handle absent no engine is
\* invoked; and an exception of either hop ends the call with the no-path
\* report, not with the translation-error report.
C30_PivotHopOrder ==
    PivotAttempted =>
        LET hop1     == <<ResolvedSource, pivot_code>>
            hop2     == <<pivot_code, last.tgt_lang>>
            steps    == PivotSteps
            segments == EngineInputs(
                            preprocess_text_for_translation(last.text))
        IN  /\ (last.out.raised = "none" /\ hop1 \in handles
                /\ hop2 \notin handles) =>
                   /\ Len(steps) = Len(segments) + 2
                   /\ steps[1] = Ev("get_translation", hop1[1], hop1[2], <<>>)
                   /\ \A k \in DOMAIN segments :
                          steps[k + 1] =
                              Ev("translate", hop1[1], hop1[2], segments[k])
                   /\ steps[Len(steps)] =
                          Ev("get_translation", hop2[1], hop2[2], <<>>)
                   /\ last.out.result = None
                   /\ last.out.report = "no_path"
            /\ (last.out.raised = "none" /\ hop1 \notin handles) =>
                   /\ Translations(last.out.trace) = <<>>
                   /\ steps = <<Ev("get_translation", hop1[1], hop1[2], <<>>)>>
                   /\ last.out.report = "no_path"
            /\ last.out.raised \in HopFaults =>
                   /\ last.out.result = None
                   /\ last.out.report = "no_path"

\* C30 witness: a long text of two sentences, hi -> bn, with the hi->en
\* handle and without the en->bn handle: two engine calls, then None.
C30_Witness ==
    /\ PivotAttempted
    /\ last.out.raised = "none"
    /\ last.src_lang = "hi"
    /\ last.tgt_lang = "bn"
    /\ <<"hi", "en">> \in handles
    /\ <<"en", "bn">> \notin handles
    /\ Len(Translations(last.out.trace)) = 2
    /\ last.out.trace[Len(last.out.trace)].ev = "get_translation"
    /\ last.out.report = "no_path"

\* C23: in every interleaving of two concurrent invocations of
\* initialize_offline_resources, the speech model is loaded at most once and
\* the speech-synthesis engine is initialised at most once.
C23_LoadedOnce ==
    /\ Cardinality({t \in DOMAIN running : running[t].loaded}) <= 1
    /\ Cardinality({t \in DOMAIN running : running[t].initialised}) <= 1

Created == last.op = "create_lip_sync_video"

\* C24: create_lip_sync_video calls a remote provider exactly when use_api is
\* true and api_key is non-empty, and before the local generator; the local
\* generator is invoked exactly when no remote result was obtained, never
\* after one; and None is returned only when the remote attempt, if any, and
\* the local generator both produced nothing.
C24_RemoteFirstThenLocal ==
    Created =>
        LET out      == last.out
            enabled  == /\ last.use_api
                        /\ last.api_key # None
                        /\ Len(last.api_key) > 0
            obtained == out.remote.result # None
        IN  /\ out.remote.fn # "none" <=> enabled
            /\ ~enabled => ~obtained
            /\ out.local.method # "none" <=> ~obtained
            /\ obtained => out.result = out.remote.result
            /\ out.result = None =>
                   (~obtained /\ out.local.method # "none"
                    /\ ~out.local.result)
            /\ (~obtained /\ out.local.result) => out.result = LipSyncOutput

\* C24 witness: Synthesia was called and produced nothing, then the local
\* generator merged with MoviePy and the output path was returned.
C24_Witness ==
    /\ Created
    /\ last.out.remote.fn = "generate_with_synthesia"
    /\ last.out.remote.result = None
    /\ last.out.local.method = "moviepy"
    /\ last.out.result = LipSyncOutput

\* C25: with D-ID selected (a non-empty D-ID key) and lip sync enabled, the
\* text being spoken reaches generate_with_did as text_content through
\* create_lip_sync_video, and the call does not fail before a provider is
\* reached.
C25_TextReachesDid ==
    (/\ last.op = "text_to_speech.lip_sync"
     /\ last.enable_lip_sync
     /\ Getenv(environ, "DID_API_KEY") # <<>>) =>
        /\ last.out.call.raised = "none"
        /\ last.out.call.made.remote.fn = "generate_with_did"
        /\ last.out.call.made.remote.text_content = last.text

\* C27: generate_lip_sync_video attempts one method, Wav2Lip before the
\* MoviePy merge before the simple merge; and with neither Wav2Lip nor MoviePy
\* available the simple merge returns True when both input files exist and
\* nothing fails while it loads and writes.
C27_SimpleMergeWorks ==
    last.op = "generate_lip_sync_video" =>
        /\ last.out.method =
               (IF last.world.wav2lip THEN "wav2lip"
                ELSE IF last.world.moviepy THEN "moviepy"
                ELSE "simple_merge")
        /\ (/\ ~last.world.wav2lip
            /\ ~last.world.moviepy
            /\ last.world.audio_exists
            /\ last.world.avatar_exists
            /\ last.world.write_ok) => last.out.result

\* C26: after a job is submitted the status is polled until the first answer
\* that reports a terminal status (the provider's completion status, or
\* error) and no status request follows that answer; the file is written only
\* after an answer reported completion; and the output path is returned only
\* when the download answered 200.
C26_PollUntilTerminal ==
    Job.pc # "none" =>
        /\ Job.first_terminal # 0 => Job.polls = Job.first_terminal
        /\ Job.written => (Job.completed_at # 0 /\ Job.downloads > 0)
        /\ Job.result # None => Job.written

=============================================================================
